---- MODULE Spec2Model ----
(***************************************************************************)
(* Bank-statement ingestion pipeline of                                    *)
(* src/app/api/structure-bankstatement/route.ts: the chunk merger          *)
(* (mergeAccountStatements), the model call with retry and fallback        *)
(* (retryWithBackoff, callGeminiAPI), the streaming POST handler with its  *)
(* progress events, and the Persister it calls.                            *)
(***************************************************************************)
EXTENDS Integers, Sequences, FiniteSets, TLC

(***************************************************************************)
(* Bounds of the model.                                                    *)
(***************************************************************************)
\* Number of extracted statements in a document handed to the merger.
MaxStatements == 3

(***************************************************************************)
(* Strings.  A string is a TLA+ string; the string functions the code uses *)
(* are given on the strings of the model.                                  *)
(***************************************************************************)
CONTINUATION == "CONTINUATION"

\* String.prototype.trim on the strings of the model.
Trim(s) ==
    CASE s = " A" -> "A"
      [] s = "  " -> ""
      [] OTHER -> s

\* s.toLowerCase() === "unknown"
LowerIsUnknown(s) == s \in {"unknown", "Unknown", "UNKNOWN"}

\* Every string taken as truthy.
Truthy_Always(s) == TRUE
\* JavaScript truthiness of a string.
Truthy(s) == s # ""

\* new Date(s).getTime() is NaN for a string that is no date.
IsNaNDate(s) ==
    s \notin {"2024-01-01", "2024-01-31", "2024-02-01", "2024-03-31", "2024-06-30"}

\* new Date(s).getTime() of a date, in days since 2024-01-01.
DateTime(s) ==
    CASE s = "2024-01-01" -> 0
      [] s = "2024-01-31" -> 30
      [] s = "2024-02-01" -> 31
      [] s = "2024-03-31" -> 90
      [] s = "2024-06-30" -> 181

\* findEgyptianBankDisplayName: the display name of a known bank, or "" (null).
findEgyptianBankDisplayName(name) ==
    CASE name \in {"cib", "CIB", "Commercial International Bank (CIB)"}
            -> "Commercial International Bank (CIB)"
      [] OTHER -> ""

(***************************************************************************)
(* mergeAccountStatements                                                  *)
(***************************************************************************)
\* chunkResults.sort((a, b) => a.chunk_number - b.chunk_number): a stable sort.
RECURSIVE InsertByChunkNumber(_, _)
InsertByChunkNumber(sorted, c) ==
    IF sorted = <<>> THEN <<c>>
    ELSE IF Head(sorted).chunk_number <= c.chunk_number
         THEN <<Head(sorted)>> \o InsertByChunkNumber(Tail(sorted), c)
         ELSE <<c>> \o sorted

\* The chunk results taken in the order they were handed in.
SortChunkResults_AsGiven(crs) == crs
RECURSIVE SortChunkResults(_)
SortChunkResults(crs) ==
    IF crs = <<>> THEN <<>>
    ELSE InsertByChunkNumber(SortChunkResults(SubSeq(crs, 1, Len(crs) - 1)),
                             crs[Len(crs)])

\* The bank-name test of the first pass and of the effective bank name.
IsUsableBankName(b) ==
    Truthy(b) /\ b # CONTINUATION /\ Trim(b) # "" /\ ~LowerIsUnknown(b)

\* The places <<chunk index, statement index>> of a sorted chunk list, in
\* iteration order.
RECURSIVE StatementRefs(_, _)
StatementRefs(crs, ci) ==
    IF ci > Len(crs) THEN <<>>
    ELSE [si \in 1..Len(crs[ci].account_statements) |-> <<ci, si>>]
         \o StatementRefs(crs, ci + 1)

StatementAt(crs, ref) == crs[ref[1]].account_statements[ref[2]]

\* First pass, were the name found taken as it is written.
RECURSIVE FirstBankName_AsWritten(_, _)
FirstBankName_AsWritten(crs, refs) ==
    IF refs = <<>> THEN ""
    ELSE LET b == StatementAt(crs, Head(refs)).bank_name IN
         IF IsUsableBankName(b) THEN b
         ELSE FirstBankName_AsWritten(crs, Tail(refs))

\* First pass: the first usable bank name of the document, alias-normalised.
RECURSIVE FirstBankName(_, _)
FirstBankName(crs, refs) ==
    IF refs = <<>> THEN ""
    ELSE LET b == StatementAt(crs, Head(refs)).bank_name IN
         IF IsUsableBankName(b)
         THEN (IF findEgyptianBankDisplayName(b) # ""
               THEN findEgyptianBankDisplayName(b) ELSE b)
         ELSE FirstBankName(crs, Tail(refs))

DocumentBankName(crs, fileName) ==
    LET found == FirstBankName(crs, StatementRefs(crs, 1))
        fallbackBankName == IF Truthy(fileName) THEN fileName ELSE "Unknown Bank"
    IN IF Truthy(found) THEN found ELSE fallbackBankName

\* No statement is skipped.
InvalidAccountNumber_Never(a) == FALSE
\* The statements skipped by the second pass.
InvalidAccountNumber(a) == ~Truthy(a) \/ a = CONTINUATION \/ Trim(a) = ""

EffectiveBankName(statement, documentBankName) ==
    LET b == statement.bank_name IN
    IF ~IsUsableBankName(b) THEN documentBankName
    ELSE IF findEgyptianBankDisplayName(b) # ""
         THEN findEgyptianBankDisplayName(b) ELSE b

\* (t as any)._chunkNumber || 0 for a transaction already merged: the
\* temporary field was removed after the previous merge, so the tag is 0.
ExistingChunkTag(t) == 0

\* The comparator of allTransactions.sort: a stays before b when
\* a._chunkNumber - b._chunkNumber <= 0 (0 keeps the original order).
ChunkDiffKeeps_Descending(a, b) == b - a <= 0
ChunkDiffKeeps(a, b) == a - b <= 0

\* allTransactions.sort by _chunkNumber: a stable sort of <<tag, transaction>>.
RECURSIVE InsertByTag(_, _)
InsertByTag(sorted, t) ==
    IF sorted = <<>> THEN <<t>>
    ELSE IF ChunkDiffKeeps(Head(sorted)[1], t[1])
         THEN <<Head(sorted)>> \o InsertByTag(Tail(sorted), t)
         ELSE <<t>> \o sorted

RECURSIVE SortByTag(_)
SortByTag(ts) ==
    IF ts = <<>> THEN <<>>
    ELSE InsertByTag(SortByTag(SubSeq(ts, 1, Len(ts) - 1)), ts[Len(ts)])

MergeTransactions(existing, new, chunk_number) ==
    LET newTransactions == [k \in 1..Len(new) |-> <<chunk_number, new[k]>>]
        allTransactions ==
            [k \in 1..Len(existing) |-> <<ExistingChunkTag(existing[k]), existing[k]>>]
            \o newTransactions
        sorted == SortByTag(allTransactions)
    IN [k \in 1..Len(sorted) |-> sorted[k][2]]

\* The overwrite guards of the merge branch.
OverwritesText(v) == Truthy(v) /\ v # CONTINUATION /\ Trim(v) # ""
\* The balance guard without its placeholder tests.
OverwritesBalance_AnyValue(v) == Truthy(v)
OverwritesBalance(v) == Truthy(v) /\ v # "" /\ v # "0" /\ v # "0.00"
OverwritesDate(v) == Truthy(v) /\ v # ""

\* accountMap without its lookup: no key is ever found.
IndexOfKey_Absent(acc, key) == 0
IndexOfKey(acc, key) ==
    IF \E n \in 1..Len(acc) : acc[n].key = key
    THEN CHOOSE n \in 1..Len(acc) : acc[n].key = key
    ELSE 0

\* One iteration of the second pass.  st.acc is accountMap in insertion order;
\* a merged statement shares its statement_period object with the chunk
\* statement it was created from (periodRef), so a write to the merged period
\* is a write into st.chunks.
MergeStatement(st, ref, documentBankName) ==
    LET statement == StatementAt(st.chunks, ref)
        chunk_number == st.chunks[ref[1]].chunk_number
        effectiveBankName == EffectiveBankName(statement, documentBankName)
        accountKey == Trim(statement.account_number)
        n == IndexOfKey(st.acc, accountKey)
    IN
    IF InvalidAccountNumber(statement.account_number) THEN st
    ELSE IF n # 0 THEN
        LET existingStatement == st.acc[n]
            p == existingStatement.periodRef
            matched == findEgyptianBankDisplayName(effectiveBankName)
            updated ==
                [existingStatement EXCEPT
                    !.transactions =
                        MergeTransactions(@, statement.transactions, chunk_number),
                    !.bank_name =
                        IF OverwritesText(effectiveBankName)
                        THEN (IF matched # "" THEN matched ELSE effectiveBankName)
                        ELSE @,
                    !.account_type =
                        IF OverwritesText(statement.account_type)
                        THEN statement.account_type ELSE @,
                    !.account_currency =
                        IF OverwritesText(statement.account_currency)
                        THEN statement.account_currency ELSE @,
                    !.starting_balance =
                        IF OverwritesBalance(statement.starting_balance)
                        THEN statement.starting_balance ELSE @,
                    !.ending_balance =
                        IF OverwritesBalance(statement.ending_balance)
                        THEN statement.ending_balance ELSE @]
            newPeriod ==
                [start_date |->
                    IF OverwritesDate(statement.statement_period.start_date)
                    THEN statement.statement_period.start_date
                    ELSE StatementAt(st.chunks, p).statement_period.start_date,
                 end_date |->
                    IF OverwritesDate(statement.statement_period.end_date)
                    THEN statement.statement_period.end_date
                    ELSE StatementAt(st.chunks, p).statement_period.end_date]
        IN [acc |-> [st.acc EXCEPT ![n] = updated],
            chunks |-> [st.chunks EXCEPT
                ![p[1]].account_statements[p[2]].statement_period = newPeriod]]
    ELSE
        LET newStatement ==
                [key |-> accountKey,
                 bank_name |-> effectiveBankName,
                 account_number |-> statement.account_number,
                 periodRef |-> ref,
                 account_type |-> statement.account_type,
                 account_currency |-> statement.account_currency,
                 starting_balance |-> statement.starting_balance,
                 ending_balance |-> statement.ending_balance,
                 transactions |-> statement.transactions]
        IN [acc |-> Append(st.acc, newStatement), chunks |-> st.chunks]

RECURSIVE SecondPass(_, _, _)
SecondPass(st, refs, documentBankName) ==
    IF refs = <<>> THEN st
    ELSE SecondPass(MergeStatement(st, Head(refs), documentBankName),
                    Tail(refs), documentBankName)

\* "Ensure all statements have valid bank names".
FinalBankName(b, documentBankName) ==
    IF ~Truthy(b) \/ Trim(b) = "" \/ b = CONTINUATION THEN documentBankName ELSE b

\* The longest date range of the merged statements, or <<>> (null).  periods
\* is the sequence of their statement_period objects; longestDuration starts
\* at 0 and a NaN duration compares false.
RECURSIVE LongestRange(_, _, _)
LongestRange(periods, longestRange, longestDuration) ==
    IF periods = <<>> THEN longestRange
    ELSE LET sp == Head(periods)
             duration == DateTime(sp.end_date) - DateTime(sp.start_date)
         IN IF /\ Truthy(sp.start_date) /\ Truthy(sp.end_date)
               /\ ~IsNaNDate(sp.start_date) /\ ~IsNaNDate(sp.end_date)
               /\ duration > longestDuration
            THEN LongestRange(Tail(periods), <<sp>>, duration)
            ELSE LongestRange(Tail(periods), longestRange, longestDuration)

FinalPeriod(sp, longestRange) ==
    IF longestRange # <<>> /\ (~Truthy(sp.start_date) \/ ~Truthy(sp.end_date))
    THEN longestRange[1] ELSE sp

\* mergeAccountStatements(chunkResults, fileName): the returned
\* account_statements, and the chunkResults array as the call leaves it
\* (sorted in place, the aliased statement_period objects rewritten).
mergeAccountStatements(chunkResults, fileName) ==
    LET sortedChunkResults == SortChunkResults(chunkResults)
        documentBankName == DocumentBankName(sortedChunkResults, fileName)
        st == SecondPass([acc |-> <<>>, chunks |-> sortedChunkResults],
                         StatementRefs(sortedChunkResults, 1), documentBankName)
        periods == [n \in 1..Len(st.acc) |->
                        StatementAt(st.chunks, st.acc[n].periodRef).statement_period]
        longestRange == LongestRange(periods, <<>>, 0)
        final == [n \in 1..Len(st.acc) |-> FinalPeriod(periods[n], longestRange)]
        RECURSIVE WritePeriods(_, _)
        WritePeriods(chunks, n) ==
            IF n > Len(st.acc) THEN chunks
            ELSE LET p == st.acc[n].periodRef IN
                 WritePeriods([chunks EXCEPT
                     ![p[1]].account_statements[p[2]].statement_period = final[n]],
                     n + 1)
    IN [account_statements |->
            [n \in 1..Len(st.acc) |->
                [bank_name |-> FinalBankName(st.acc[n].bank_name, documentBankName),
                 account_number |-> st.acc[n].account_number,
                 statement_period |-> final[n],
                 account_type |-> st.acc[n].account_type,
                 account_currency |-> st.acc[n].account_currency,
                 starting_balance |-> st.acc[n].starting_balance,
                 ending_balance |-> st.acc[n].ending_balance,
                 transactions |-> st.acc[n].transactions]],
        chunkResults |-> WritePeriods(st.chunks, 1)]

(***************************************************************************)
(* splitIntoChunks.  A statement text is the text before the first page    *)
(* marker (pre) and, per marker "=== PDF PAGE(S) <range> ===", the range   *)
(* and the text that follows it (segs).                                    *)
(***************************************************************************)
\* The page range of the m-th marker of a text.
PageLabel(m) ==
    CASE m = 1 -> "1"
      [] m = 2 -> "2-3"
      [] OTHER -> "4"

\* statementText.split(pageMarkerRegex): with the capture group the parts
\* are <<pre, range 1, text 1, range 2, text 2, ...>>.
RECURSIVE Parts(_)
Parts(segs) ==
    IF segs = <<>> THEN <<>>
    ELSE <<Head(segs).pages, Head(segs).content>> \o Parts(Tail(segs))

SplitParts(text) == <<text.pre>> \o Parts(text.segs)

\* The loop without its test of the content: a chunk per marker.
RECURSIVE SplitLoop_KeepsBlank(_, _)
SplitLoop_KeepsBlank(parts, i0) ==
    IF i0 >= Len(parts) THEN <<>>
    ELSE <<[content |-> Trim(parts[i0 + 2]), pages |-> Trim(parts[i0 + 1]),
            chunkNumber |-> (i0 \div 2) + 1]>>
         \o SplitLoop_KeepsBlank(parts, i0 + 2)

\* The loop over the odd (0-based) indices i of parts; i0 is that index.
RECURSIVE SplitLoop(_, _)
SplitLoop(parts, i0) ==
    IF i0 >= Len(parts) THEN <<>>
    ELSE LET pages == Trim(parts[i0 + 1])
             content == Trim(parts[i0 + 2])
         IN (IF Truthy(content)
             THEN <<[content |-> content, pages |-> pages,
                     chunkNumber |-> (i0 \div 2) + 1]>>
             ELSE <<>>)
            \o SplitLoop(parts, i0 + 2)

\* The split without the branch for a text with no marker.
splitIntoChunks_NoFallback(statementText) == SplitLoop(SplitParts(statementText), 1)
splitIntoChunks(statementText) ==
    LET parts == SplitParts(statementText) IN
    IF Len(parts) <= 1
    THEN <<[content |-> statementText.pre, pages |-> "1-N", chunkNumber |-> 1]>>
    ELSE SplitLoop(parts, 1)

(***************************************************************************)
(* The record store and the Persister                                      *)
(* (processBankStatementWithConcurrency), which decides atomically.        *)
(***************************************************************************)
\* Number(...) of an amount string, in hundredths; 0 for text with no number.
ToCents(v) ==
    CASE v = "75" -> 7500
      [] v = "100" -> 10000
      [] v = "250" -> 25000
      [] v = "300" -> 30000
      [] v = "400" -> 40000
      [] v = "500" -> 50000
      [] v = "600" -> 60000
      [] OTHER -> 0

EmptyStore == [banks |-> {}, statements |-> <<>>]

StoredTransaction(t) ==
    [description |-> t.description,
     creditAmount |-> ToCents(t.credit_amount),
     debitAmount |-> ToCents(t.debit_amount)]

\* The stored statements of a bank and account: their ids.
FindStatements(store, bankName, accountNumber) ==
    {id \in 1..Len(store.statements) :
        /\ store.statements[id].bankName = bankName
        /\ store.statements[id].accountNumber = accountNumber}

\* A statement the store can hold: its period dates are dates.
Storable(statement) ==
    /\ ~IsNaNDate(statement.statement_period.start_date)
    /\ ~IsNaNDate(statement.statement_period.end_date)

EarlierDate(a, b) == IF DateTime(a) <= DateTime(b) THEN a ELSE b
LaterDate(a, b) == IF DateTime(a) >= DateTime(b) THEN a ELSE b

\* The transactions of new that old does not hold already.
RECURSIVE NewTransactions(_, _)
NewTransactions(old, new) ==
    IF new = <<>> THEN <<>>
    ELSE (IF \E k \in 1..Len(old) : old[k] = Head(new) THEN <<>> ELSE <<Head(new)>>)
         \o NewTransactions(old, Tail(new))

\* The decision without the existence check: every submission creates.
PersisterDecision_AlwaysCreate(existing, sameStatement, samePeriod) == "CREATE_NEW"
\* The decision policy of the Persister.
PersisterDecision(existing, sameStatement, samePeriod) ==
    IF existing = {} THEN "CREATE_NEW"
    ELSE IF sameStatement THEN "SKIP_DUPLICATE"
    ELSE IF samePeriod THEN "ADD_TO_EXISTING_BANK"
    ELSE "MERGE_DIFFERENT_PERIOD"

\* processBankStatementWithConcurrency(statement, ...) on a store: the
\* ProcessingResult and the store it leaves, as one atomic read-modify-write.
processBankStatementWithConcurrency(store, statement) ==
    LET existing == FindStatements(store, statement.bank_name, statement.account_number)
        id == IF existing = {} THEN Len(store.statements) + 1
              ELSE CHOOSE e \in existing : \A o \in existing : e <= o
        stored == store.statements[id]
        txs == [k \in 1..Len(statement.transactions) |->
                    StoredTransaction(statement.transactions[k])]
        samePeriod ==
            /\ existing # {}
            /\ stored.statementPeriodStart = statement.statement_period.start_date
            /\ stored.statementPeriodEnd = statement.statement_period.end_date
        sameStatement ==
            /\ samePeriod
            /\ stored.startingBalance = ToCents(statement.starting_balance)
            /\ stored.endingBalance = ToCents(statement.ending_balance)
        action == PersisterDecision(existing, sameStatement, samePeriod)
        created ==
            [id |-> Len(store.statements) + 1,
             bankName |-> statement.bank_name,
             accountNumber |-> statement.account_number,
             statementPeriodStart |-> statement.statement_period.start_date,
             statementPeriodEnd |-> statement.statement_period.end_date,
             startingBalance |-> ToCents(statement.starting_balance),
             endingBalance |-> ToCents(statement.ending_balance),
             transactions |-> txs,
             validated |-> FALSE, validationStatus |-> "pending",
             validatedAt |-> "null"]
        appended == NewTransactions(stored.transactions, txs)
    IN CASE action = "CREATE_NEW" ->
              [result |-> [action |-> action, bankStatementId |-> created.id,
                           transactionCount |-> Len(txs)],
               store |-> [banks |-> store.banks \cup {statement.bank_name},
                          statements |-> Append(store.statements, created)]]
         [] action = "SKIP_DUPLICATE" ->
              [result |-> [action |-> action, bankStatementId |-> id,
                           transactionCount |-> 0],
               store |-> store]
         [] OTHER ->
              [result |-> [action |-> action, bankStatementId |-> id,
                           transactionCount |-> Len(appended)],
               store |-> [store EXCEPT
                   !.statements[id].transactions = @ \o appended,
                   !.statements[id].statementPeriodStart =
                       EarlierDate(@, statement.statement_period.start_date),
                   !.statements[id].statementPeriodEnd =
                       LaterDate(@, statement.statement_period.end_date)]]

(***************************************************************************)
(* Numbers.  Number(...) of a stored decimal is an IEEE-754 double.  A     *)
(* double of the model is a sign and a magnitude; the magnitude is the     *)
(* integer |x| * Base^FracLimbs, written in limbs of LimbBits binary       *)
(* digits, the least significant first.  The amounts of the model are 0 or *)
(* at least 0.01 in magnitude, so every double the code computes is a      *)
(* multiple of 2^-59 and is held exactly.                                  *)
(***************************************************************************)
\* Binary digits of one limb.
LimbBits == 15
\* Limbs after the binary point.
FracLimbs == 4
\* Limbs of a magnitude.
Limbs == 6

RECURSIVE TwoToThe(_)
TwoToThe(n) == IF n = 0 THEN 1 ELSE 2 * TwoToThe(n - 1)

Base == TwoToThe(LimbBits)

Zero == [i \in 1..Limbs |-> 0]

\* Binary digit n of a magnitude, digit 0 the least significant.
Bit(X, n) == (X[(n \div LimbBits) + 1] \div TwoToThe(n % LimbBits)) % 2

RECURSIVE AddFrom(_, _, _, _)
AddFrom(a, b, i, carry) ==
    IF i > Limbs THEN <<>>
    ELSE IF a[i] + b[i] + carry >= Base
         THEN <<a[i] + b[i] + carry - Base>> \o AddFrom(a, b, i + 1, 1)
         ELSE <<a[i] + b[i] + carry>> \o AddFrom(a, b, i + 1, 0)

AddLimbs(a, b) == AddFrom(a, b, 1, 0)

RECURSIVE SubFrom(_, _, _, _)
SubFrom(a, b, i, borrow) ==
    IF i > Limbs THEN <<>>
    ELSE IF a[i] - b[i] - borrow < 0
         THEN <<a[i] - b[i] - borrow + Base>> \o SubFrom(a, b, i + 1, 1)
         ELSE <<a[i] - b[i] - borrow>> \o SubFrom(a, b, i + 1, 0)

\* a - b for a >= b.
SubLimbs(a, b) == SubFrom(a, b, 1, 0)

LessLimbs(a, b) ==
    \E i \in 1..Limbs : a[i] < b[i] /\ \A j \in (i + 1)..Limbs : a[j] = b[j]

\* The quotient of X by the small integer d, and its remainder.
RECURSIVE DivFrom(_, _, _, _)
DivFrom(X, d, i, rem) ==
    IF i = 0 THEN <<>>
    ELSE DivFrom(X, d, i - 1, (rem * Base + X[i]) % d) \o <<(rem * Base + X[i]) \div d>>

RECURSIVE RemFrom(_, _, _, _)
RemFrom(X, d, i, rem) ==
    IF i = 0 THEN rem ELSE RemFrom(X, d, i - 1, (rem * Base + X[i]) % d)

\* The product of X and the small integer k.
RECURSIVE MulFrom(_, _, _, _)
MulFrom(X, k, i, carry) ==
    IF i > Limbs THEN <<>>
    ELSE <<(X[i] * k + carry) % Base>> \o MulFrom(X, k, i + 1, (X[i] * k + carry) \div Base)

\* The number of binary digits of a magnitude.
BitLength(X) ==
    IF X = Zero THEN 0
    ELSE LET top == CHOOSE i \in 1..Limbs : X[i] # 0 /\ \A j \in (i + 1)..Limbs : X[j] = 0
             len == CHOOSE n \in 1..LimbBits :
                        TwoToThe(n - 1) <= X[top] /\ X[top] < TwoToThe(n)
         IN (top - 1) * LimbBits + len

\* Rounding to the 53 significant binary digits of a double: to nearest, ties
\* to even.  inexact: digits below the magnitude X were already dropped.
RoundLimbs(X, inexact) ==
    LET drop == BitLength(X) - 53 IN
    IF drop <= 0 THEN X
    ELSE LET q == drop \div LimbBits
             r == drop % LimbBits
             kept == [i \in 1..Limbs |->
                        IF i <= q THEN 0
                        ELSE IF i = q + 1 THEN X[i] - (X[i] % TwoToThe(r))
                        ELSE X[i]]
             ulp == [i \in 1..Limbs |-> IF i = q + 1 THEN TwoToThe(r) ELSE 0]
             sticky == inexact \/ \E n \in 0..(drop - 2) : Bit(X, n) = 1
         IN IF Bit(X, drop - 1) = 1 /\ (sticky \/ Bit(X, drop) = 1)
            THEN AddLimbs(kept, ulp) ELSE kept

Double(neg, mag) == [neg |-> neg /\ mag # Zero, mag |-> mag]

\* Number(d) of the decimal d of c hundredths: the double nearest to c / 100.
NumberOf(c) ==
    LET m == IF c < 0 THEN -c ELSE c
        scaled == [i \in 1..Limbs |->
                      IF i = FracLimbs + 1 THEN m % Base
                      ELSE IF i = FracLimbs + 2 THEN m \div Base
                      ELSE 0]
    IN Double(c < 0, RoundLimbs(DivFrom(scaled, 100, Limbs, 0),
                                RemFrom(scaled, 100, Limbs, 0) # 0))

\* x + y of two doubles.
DoubleAdd(x, y) ==
    IF x.neg = y.neg THEN Double(x.neg, RoundLimbs(AddLimbs(x.mag, y.mag), FALSE))
    ELSE IF LessLimbs(x.mag, y.mag)
         THEN Double(y.neg, RoundLimbs(SubLimbs(y.mag, x.mag), FALSE))
         ELSE Double(x.neg, RoundLimbs(SubLimbs(x.mag, y.mag), FALSE))

\* x - y of two doubles.
DoubleSub(x, y) == DoubleAdd(x, [y EXCEPT !.neg = ~y.neg])

\* Math.abs(x)
Abs(x) == [x EXCEPT !.neg = FALSE]

\* x <= y of two doubles.
DoubleLeq(x, y) ==
    IF x.neg /\ ~y.neg THEN TRUE
    ELSE IF ~x.neg /\ y.neg THEN x.mag = Zero /\ y.mag = Zero
    ELSE IF x.neg THEN ~LessLimbs(x.mag, y.mag)
    ELSE ~LessLimbs(y.mag, x.mag)

\* x.toFixed(2) of a double x >= 0, in hundredths: the integer n nearest to
\* 100 x, the larger one of two.
ToFixed2(x) ==
    LET half == [i \in 1..Limbs |-> IF i = FracLimbs THEN Base \div 2 ELSE 0]
        t == AddLimbs(MulFrom(x.mag, 100, 1, 0), half)
    IN t[FracLimbs + 1] + Base * t[FracLimbs + 2]

(***************************************************************************)
(* performAutoValidation                                                   *)
(***************************************************************************)
\* const tolerance = 0.01, in hundredths.
Tolerance == 1

\* totalCredits / totalDebits: the sum, from 0, of Number(amount) over the
\* transactions.  An amount that is absent is 0 in the store of the model:
\* the code skips it, the model adds 0, and the total is the same.
RECURSIVE SumOf(_, _, _)
SumOf(transactions, field, total) ==
    IF transactions = <<>> THEN total
    ELSE SumOf(Tail(transactions), field,
               DoubleAdd(total, NumberOf(Head(transactions)[field])))

\* The outcome: the status, and the discrepancy as the notes of a failed
\* validation print it (discrepancy.toFixed(2)), in hundredths.
performAutoValidation(statement) ==
    LET startingBalance == NumberOf(statement.startingBalance)
        endingBalance == NumberOf(statement.endingBalance)
        totalCredits == SumOf(statement.transactions, "creditAmount", NumberOf(0))
        totalDebits == SumOf(statement.transactions, "debitAmount", NumberOf(0))
        calculatedBalance ==
            DoubleSub(DoubleAdd(startingBalance, totalCredits), totalDebits)
        discrepancy == Abs(DoubleSub(calculatedBalance, endingBalance))
    IN [status |-> IF DoubleLeq(discrepancy, NumberOf(Tolerance))
                   THEN "passed" ELSE "failed",
        discrepancy |-> ToFixed2(discrepancy)]

(***************************************************************************)
(* The response of the model as text.  A text is a sequence of tokens: the *)
(* braces, brackets and comma of JSON, "k" for a key with its colon, "v"   *)
(* for a string or number value, the whitespace " " and "\n", the code     *)
(* code fence "fence" (three backticks), the word "json" and "x" for any   *)
(* other prose.                                                            *)
(***************************************************************************)
Whitespace == {" ", "\n"}

RECURSIVE TrimStart(_)
TrimStart(t) ==
    IF t # <<>> /\ Head(t) \in Whitespace THEN TrimStart(Tail(t)) ELSE t

RECURSIVE TrimEnd(_)
TrimEnd(t) ==
    IF t # <<>> /\ t[Len(t)] \in Whitespace
    THEN TrimEnd(SubSeq(t, 1, Len(t) - 1)) ELSE t

\* text.trim()
TrimText(t) == TrimEnd(TrimStart(t))

\* text.startsWith(p), text.endsWith(p)
StartsWith(t, p) == Len(t) >= Len(p) /\ SubSeq(t, 1, Len(p)) = p
EndsWith(t, p) == Len(t) >= Len(p) /\ SubSeq(t, Len(t) - Len(p) + 1, Len(t)) = p

\* text.substring(n)
Substring(t, n) == SubSeq(t, n + 1, Len(t))

\* text.indexOf(c): the position of the first c, from 0, or -1.
IndexOf(t, c) ==
    IF \E i \in 1..Len(t) : t[i] = c
    THEN (CHOOSE i \in 1..Len(t) : t[i] = c /\ \A j \in 1..(i - 1) : t[j] # c) - 1
    ELSE -1

\* (text.match(/c/g) || []).length
CountOf(t, c) == Cardinality({i \in 1..Len(t) : t[i] = c})

\* The removal of the markdown code block indicators.
StripFences(jsonString) ==
    LET trimmed == TrimText(jsonString)
        opened == IF StartsWith(trimmed, <<"fence", "json">>)
                  THEN TrimText(Substring(trimmed, 2))
                  ELSE IF StartsWith(trimmed, <<"fence">>)
                  THEN TrimText(Substring(trimmed, 1))
                  ELSE trimmed
    IN IF EndsWith(opened, <<"fence">>)
       THEN TrimText(SubSeq(opened, 1, Len(opened) - 1))
       ELSE opened

\* The loop that counts braces from position i (from 0): jsonEnd, or -1.
RECURSIVE JsonEnd(_, _, _)
JsonEnd(cleaned, i, braceCount) ==
    IF i >= Len(cleaned) THEN -1
    ELSE IF cleaned[i + 1] = "{" THEN JsonEnd(cleaned, i + 1, braceCount + 1)
    ELSE IF cleaned[i + 1] = "}"
         THEN IF braceCount - 1 = 0 THEN i + 1
              ELSE JsonEnd(cleaned, i + 1, braceCount - 1)
    ELSE JsonEnd(cleaned, i + 1, braceCount)

\* The first token of t from position i on that is not whitespace, or "".
RECURSIVE NextVisible(_, _)
NextVisible(t, i) ==
    IF i > Len(t) THEN ""
    ELSE IF t[i] \in Whitespace THEN NextVisible(t, i + 1)
    ELSE t[i]

\* .replace(/,(\s*[}\]])/g, '$1'): the commas before a closing brace or
\* bracket are removed.
RECURSIVE RemoveTrailingCommas(_, _)
RemoveTrailingCommas(t, i) ==
    IF i > Len(t) THEN <<>>
    ELSE IF t[i] = "," /\ NextVisible(t, i + 1) \in {"}", "]"}
    THEN RemoveTrailingCommas(t, i + 1)
    ELSE <<t[i]>> \o RemoveTrailingCommas(t, i + 1)

\* The replacement of newlines by spaces and of runs of whitespace by one
\* space.
RECURSIVE CollapseWhitespace(_)
CollapseWhitespace(t) ==
    IF t = <<>> THEN <<>>
    ELSE IF Head(t) \in Whitespace
    THEN <<" ">> \o CollapseWhitespace(TrimStart(t))
    ELSE <<Head(t)>> \o CollapseWhitespace(Tail(t))

\* Clean up common JSON formatting issues
CleanUp(t) == TrimText(CollapseWhitespace(RemoveTrailingCommas(t, 1)))

\* validateAndFixJSON, were it to keep what follows the matching brace.
validateAndFixJSON_NoTruncation(jsonString) ==
    LET stripped == StripFences(jsonString)
        jsonStart == IndexOf(stripped, "{")
    IN CleanUp(IF jsonStart > 0 THEN Substring(stripped, jsonStart) ELSE stripped)

validateAndFixJSON(jsonString) ==
    LET stripped == StripFences(jsonString)
        jsonStart == IndexOf(stripped, "{")
        cleaned == IF jsonStart > 0 THEN Substring(stripped, jsonStart) ELSE stripped
        jsonEnd == JsonEnd(cleaned, 0, 0)
    IN CleanUp(IF jsonEnd > 0 /\ jsonEnd < Len(cleaned)
               THEN SubSeq(cleaned, 1, jsonEnd) ELSE cleaned)

(***************************************************************************)
(* JSON.parse on a text: whether the text is one JSON value.  The parser   *)
(* reads the tokens with a stack of the open containers and what it        *)
(* expects next.                                                           *)
(***************************************************************************)
AfterValue(stack) == IF stack = <<>> THEN "end" ELSE "comma_or_close"

RECURSIVE ParseFrom(_, _, _, _)
ParseFrom(t, i, stack, expect) ==
    IF i > Len(t) THEN expect = "end"
    ELSE LET c == t[i]
             top == IF stack = <<>> THEN "" ELSE stack[Len(stack)]
             popped == SubSeq(stack, 1, Len(stack) - 1)
         IN IF c \in Whitespace THEN ParseFrom(t, i + 1, stack, expect)
            ELSE IF c = "{" /\ expect \in {"value", "value_or_close"}
            THEN ParseFrom(t, i + 1, Append(stack, "{"), "key_or_close")
            ELSE IF c = "[" /\ expect \in {"value", "value_or_close"}
            THEN ParseFrom(t, i + 1, Append(stack, "["), "value_or_close")
            ELSE IF c = "v" /\ expect \in {"value", "value_or_close"}
            THEN ParseFrom(t, i + 1, stack, AfterValue(stack))
            ELSE IF c = "k" /\ expect \in {"key_or_close", "key"}
            THEN ParseFrom(t, i + 1, stack, "value")
            ELSE IF c = "," /\ expect = "comma_or_close"
            THEN ParseFrom(t, i + 1, stack, IF top = "{" THEN "key" ELSE "value")
            ELSE IF c = "}" /\ top = "{" /\ expect \in {"key_or_close", "comma_or_close"}
            THEN ParseFrom(t, i + 1, popped, AfterValue(popped))
            ELSE IF c = "]" /\ top = "[" /\ expect \in {"value_or_close", "comma_or_close"}
            THEN ParseFrom(t, i + 1, popped, AfterValue(popped))
            ELSE FALSE

\* JSON.parse(text) returns (TRUE) or throws (FALSE).
JSONParses(text) == ParseFrom(text, 1, <<>>, "value")

\* "}".repeat(n)
RECURSIVE Repeat(_, _)
Repeat(c, n) == IF n <= 0 THEN <<>> ELSE <<c>> \o Repeat(c, n - 1)

\* The manual fix, were it to add the missing braces to every text.
ManualFix_Always(cleanedText) ==
    LET startIndex == IndexOf(cleanedText, "{")
        started == IF ~StartsWith(cleanedText, <<"{">>) /\ startIndex > -1
                   THEN Substring(cleanedText, startIndex) ELSE cleanedText
    IN started \o Repeat("}", CountOf(started, "{") - CountOf(started, "}"))

\* The manual fix approach of processChunk: manualFix.
ManualFix(cleanedText) ==
    LET startIndex == IndexOf(cleanedText, "{")
        started == IF ~StartsWith(cleanedText, <<"{">>) /\ startIndex > -1
                   THEN Substring(cleanedText, startIndex) ELSE cleanedText
        missingBraces == CountOf(started, "{") - CountOf(started, "}")
    IN IF ~EndsWith(started, <<"}">>) /\ missingBraces > 0
       THEN started \o Repeat("}", missingBraces)
       ELSE started

\* processChunk after callGeminiAPI returned responseText: the cleaned text,
\* the manual fix when the cleaned text does not parse, and whether the chunk
\* was parsed or processChunk throws.
ParseResponse(text) ==
    LET cleaned == validateAndFixJSON(text) IN
    IF JSONParses(cleaned)
    THEN [cleanedText |-> cleaned, manualFix |-> <<>>, fixed |-> FALSE,
          outcome |-> "parsed"]
    ELSE [cleanedText |-> cleaned, manualFix |-> ManualFix(cleaned), fixed |-> TRUE,
          outcome |-> IF JSONParses(ManualFix(cleaned)) THEN "parsed" ELSE "throw"]

(***************************************************************************)
(* Inputs of the merger: documents of at most MaxStatements extracted      *)
(* statements, cut into consecutive chunks.                                *)
(***************************************************************************)
Template(bank, account, start, end, type, currency, sb, eb, ntx) ==
    [bank_name |-> bank, account_number |-> account,
     statement_period |-> [start_date |-> start, end_date |-> end],
     account_type |-> type, account_currency |-> currency,
     starting_balance |-> sb, ending_balance |-> eb, ntx |-> ntx]

\* Account A with every header field visible.
TplFullA == Template("Bank X", "A", "2024-01-01", "2024-01-31",
                     "Current Account", "EGP", "100", "250", 2)
\* Account A continued on a page that shows no header.
TplContA == Template(CONTINUATION, "A", CONTINUATION, CONTINUATION,
                     CONTINUATION, CONTINUATION, CONTINUATION, CONTINUATION, 1)
\* Account A with empty header fields, placeholder balances and an end date only.
TplPartA == Template("", " A", "", "2024-03-31", "", "", "0", "0.00", 1)
\* Account B of another bank, with the longest period.
TplFullB == Template("cib", "B", "2024-02-01", "2024-06-30",
                     "Facility Account", "USD", "300", "400", 1)
\* Account B with an unknown bank and nothing else visible.
TplPartB == Template("unknown", "B", "", "", "", "", "", "", 1)
\* A statement whose account number is not visible.
TplNoAccount == Template("Bank Y", CONTINUATION, "2024-01-01", "2024-06-30",
                         "Current Account", "EGP", "500", "600", 1)
\* Statements whose account number is empty, and blank.
TplEmptyAccount == Template("Bank Y", "", "2024-01-01", "2024-06-30",
                            "Current Account", "EGP", "500", "600", 1)
TplBlankAccount == Template("Bank Y", "  ", "2024-01-01", "2024-06-30",
                            "Current Account", "EGP", "500", "600", 1)

\* Account A on a later, single day, with the balances of that day.
TplDayA == Template("Bank X", "A", "2024-06-30", "2024-06-30",
                    "Current Account", "EGP", "500", "600", 1)

Templates ==
    {TplFullA, TplContA, TplPartA, TplFullB, TplPartB, TplNoAccount,
     TplEmptyAccount, TplBlankAccount, TplDayA}

\* The file name of the request: any string, or none.
FileNames == {"statement.pdf", "", CONTINUATION}

\* The transactions of the s-th statement of chunk c: each names its place.
Transactions(c, s, ntx) ==
    [k \in 1..ntx |-> [description |-> <<c, s, k>>, credit_amount |-> "75",
                       debit_amount |-> ""]]

ExtractedStatement(tpl, c, s) ==
    [bank_name |-> tpl.bank_name, account_number |-> tpl.account_number,
     statement_period |-> tpl.statement_period,
     account_type |-> tpl.account_type, account_currency |-> tpl.account_currency,
     starting_balance |-> tpl.starting_balance, ending_balance |-> tpl.ending_balance,
     transactions |-> Transactions(c, s, tpl.ntx)]

\* The cuts of n statements into consecutive non-empty chunks: g[k] is the
\* chunk number of the k-th statement.
Cuts(n) ==
    {g \in [1..n -> 1..n] :
        /\ n > 0 => g[1] = 1
        /\ \A k \in 1..(n - 1) : g[k + 1] \in {g[k], g[k] + 1}}

ChunkOf(tpls, g, c) ==
    LET idx == {k \in 1..Len(tpls) : g[k] = c}
        first == CHOOSE k \in idx : \A j \in idx : k <= j
    IN [chunk_number |-> c,
        pages |-> PageLabel(c),
        account_statements |->
            [s \in 1..Cardinality(idx) |->
                ExtractedStatement(tpls[first + s - 1], c, s)]]

Document(tpls, g) ==
    IF tpls = <<>>
    THEN <<[chunk_number |-> 1, pages |-> PageLabel(1), account_statements |-> <<>>]>>
    ELSE [c \in 1..g[Len(tpls)] |-> ChunkOf(tpls, g, c)]

Reverse(s) == [k \in 1..Len(s) |-> s[Len(s) + 1 - k]]

\* The documents of n statements, and the same with the chunks handed in
\* descending order.
IsDocument(d) ==
    \E n \in 0..MaxStatements : \E tpls \in [1..n -> Templates] : \E g \in Cuts(n) :
        \E descending \in BOOLEAN :
            d = IF descending THEN Reverse(Document(tpls, g)) ELSE Document(tpls, g)

(***************************************************************************)
(* Model configuration of route.ts.                                        *)
(***************************************************************************)
MODEL_NAME == "gemini-2.5-flash-preview-05-20"
FALLBACK_MODEL == "gemini-1.5-flash"
\* const models = [MODEL_NAME, FALLBACK_MODEL]
Models == <<MODEL_NAME, FALLBACK_MODEL>>
\* The defaults of retryWithBackoff.
MaxRetries == 3
BaseDelay == 1000

(***************************************************************************)
(* State.                                                                  *)
(***************************************************************************)
VARIABLES
    chunkResults,   \* the ChunkData array (the objects a merge call receives)
    fileName,       \* the source file name, "" when absent
    input,          \* the chunk results as first handed to the merger
    returned,       \* what each mergeAccountStatements call returned, in order
    callState,      \* callGeminiAPI: "idle", "calling", "backoff", "returned", "thrown"
    modelIndex,     \* the index in models of the model being tried
    attempt,        \* the loop variable of retryWithBackoff
    calls,          \* the generateContent calls made, with their outcomes
    delays,         \* the backoff waits started, in ms
    lastError,      \* lastError of retryWithBackoff / the error callGeminiAPI throws
    store,          \* the record store: banks and stored statements
    pending,        \* per concurrent ingestion, the merged statements still to persist
    persistLog,     \* the Persister calls so far: who, what, outcome
    faults,         \* the external failures injected so far
    statementText,  \* the request body: the statement text
    supabaseUserId, \* the request body: the submitting user, "" when absent
    response,       \* what POST returned: "none", "400", "401" or "stream"
    pc,             \* the position of the stream's start() callback
    streamState,    \* the ReadableStream: "none", "readable", "closed", "cancelled"
    events,         \* the events enqueued on the stream, in order
    closes,         \* the controller.close() calls that returned
    chunks,         \* what splitIntoChunks returned
    chunkIdx,       \* the position of the chunk loop in chunks
    failedChunks,   \* the chunk numbers whose processChunk raised
    structuredData, \* account_statements of the merge result
    stmtIdx,        \* the position of the persistence loop (i + 1)
    processingResults,
    savedStatementIds,
    valIdx,         \* the position of the validation loop in savedStatementIds
    validationResult,
    statementsWithCounts,
    clsIdx,         \* the position of the classification loop
    classificationResults,
    classifying,    \* the statements whose classification was started
    classified,     \* the classifications that settled: statement and outcome
    responseText,   \* processChunk: the text callGeminiAPI returned
    parseResult,    \* processChunk: the cleaned text, the manual fix, the outcome
    parsedData,     \* per chunk, the value JSON.parse returned
    chunkData,      \* per chunk, the ChunkData processChunk returned
    amount,         \* convertToDecimal: the value handed in
    decimal,        \* convertToDecimal: what it returned
    storedBalance,  \* the startingBalance the non-streaming route writes
    requestPc,      \* per request of the non-streaming route, its position
    requestSaved,   \* per request, savedStatements: the ids it created
    requestResponse, \* per request, the response: "none", "200" or "500"
    putRequest,     \* the update-bank endpoint: params.id and the body of the request
    putPc,          \* the update-bank endpoint: the position of PUT
    putCalls,       \* the calls of updateStatementBankAffiliation, in order
    putResponse     \* the update-bank endpoint: the response, "none" before it

mergeVars == <<chunkResults, fileName, input, returned>>
callVars == <<callState, modelIndex, attempt, calls, delays, lastError>>
persistVars == <<store, pending, persistLog, faults>>
requestVars == <<statementText, supabaseUserId>>
streamVars == <<response, streamState, events, closes>>
chunkVars == <<chunks, chunkIdx, failedChunks>>
statementVars == <<structuredData, stmtIdx, processingResults, savedStatementIds>>
validationVars == <<valIdx, validationResult, statementsWithCounts>>
classificationVars == <<clsIdx, classificationResults, classifying, classified>>
postVars == <<requestVars, pc, streamVars, chunkVars, statementVars,
              validationVars, classificationVars>>
extractVars == <<responseText, parseResult>>
shapeVars == <<parsedData, chunkData>>
\* The variables of the specifications of single functions and of the other
\* routes.
convertVars == <<amount, decimal, storedBalance>>
legacyVars == <<requestPc, requestSaved, requestResponse>>
putVars == <<putRequest, putPc, putCalls, putResponse>>
sideVars == <<shapeVars, convertVars, legacyVars, putVars>>
vars == <<mergeVars, callVars, persistVars, postVars, extractVars, sideVars>>

\* processChunk before callGeminiAPI has returned.
NotParsed == [cleanedText |-> <<>>, manualFix |-> <<>>, fixed |-> FALSE,
              outcome |-> "none"]

\* The values of the variables a specification does not use.
ExtractIdle == responseText = <<>> /\ parseResult = NotParsed
ShapeIdle == parsedData = <<>> /\ chunkData = <<>>
ConvertIdle == amount = "none" /\ decimal = "none" /\ storedBalance = "none"
LegacyIdle == requestPc = <<>> /\ requestSaved = <<>> /\ requestResponse = <<>>
PutIdle ==
    putRequest = "none" /\ putPc = "idle" /\ putCalls = <<>> /\ putResponse = "none"
SideIdle == ShapeIdle /\ ConvertIdle /\ LegacyIdle /\ PutIdle
MergeIdle ==
    /\ chunkResults = <<>> /\ fileName = "" /\ input = <<>> /\ returned = <<>>
CallIdle ==
    /\ callState = "idle" /\ modelIndex = 1 /\ attempt = 0
    /\ calls = <<>> /\ delays = <<>> /\ lastError = ""
PersistIdle ==
    /\ store = EmptyStore /\ pending = <<>> /\ persistLog = <<>> /\ faults = 0
\* The handler before its first step, whatever the request.
PostLocalsInit ==
    /\ response = "none" /\ streamState = "none" /\ events = <<>> /\ closes = 0
    /\ chunks = <<>> /\ chunkIdx = 0 /\ failedChunks = {}
    /\ structuredData = <<>> /\ stmtIdx = 0
    /\ processingResults = <<>> /\ savedStatementIds = <<>>
    /\ valIdx = 0 /\ validationResult = [status |-> "", discrepancy |-> 0]
    /\ statementsWithCounts = <<>>
    /\ clsIdx = 0 /\ classificationResults = <<>> /\ classifying = {}
    /\ classified = {}
PostIdle ==
    /\ statementText = [pre |-> "", segs |-> <<>>] /\ supabaseUserId = ""
    /\ pc = "idle"
    /\ PostLocalsInit

(***************************************************************************)
(* The merger as a state machine: a document is merged, and merged again   *)
(* on the same objects.                                                    *)
(***************************************************************************)
InitMerge ==
    /\ IsDocument(chunkResults)
    /\ fileName \in FileNames
    /\ input = chunkResults
    /\ returned = <<>>
    /\ CallIdle /\ PersistIdle /\ PostIdle /\ ExtractIdle /\ SideIdle

CallMerge ==
    /\ Len(returned) < 2
    /\ LET r == mergeAccountStatements(chunkResults, fileName) IN
        /\ returned' = Append(returned, r.account_statements)
        /\ chunkResults' = r.chunkResults
    /\ UNCHANGED <<fileName, input, callVars, persistVars, postVars, extractVars, sideVars>>

NextMerge == CallMerge

SpecMerge == InitMerge /\ [][NextMerge]_vars

(***************************************************************************)
(* callGeminiAPI with retryWithBackoff, for one prompt.                    *)
(***************************************************************************)
\* What one generateContent(Stream) call can do: raise, or return a text.
ModelOutcomes ==
    {[kind |-> "raise", error |-> e, text |-> ""] : e \in {"429", "500"}}
    \cup {[kind |-> "text", error |-> "", text |-> t] :
            t \in {"", "  ", "{\"account_statements\": []}"}}

\* Math.pow(2, attempt), were the delay not doubled.
Pow2_Constant(n) == 1
RECURSIVE Pow2(_)
Pow2(n) == IF n = 0 THEN 1 ELSE 2 * Pow2(n - 1)

\* modelName === models[models.length - 1]
IsLastModel_First(index) == index = 1
IsLastModel(index) == Models[index] = Models[Len(Models)]

IsEmptyResponse_Never(text) == FALSE
\* !responseText || responseText.trim() === ''
IsEmptyResponse(text) == ~Truthy(text) \/ Trim(text) = ""

InitCall ==
    /\ callState = "calling" /\ modelIndex = 1 /\ attempt = 0
    /\ calls = <<>> /\ delays = <<>> /\ lastError = ""
    /\ MergeIdle /\ PersistIdle /\ PostIdle /\ ExtractIdle /\ SideIdle

\* The catch block of the model loop: throw on the last model, else go on
\* with the next one (a new retryWithBackoff, attempt 0).
ModelFailed(error) ==
    /\ lastError' = error
    /\ IF IsLastModel(modelIndex)
       THEN callState' = "thrown" /\ UNCHANGED <<modelIndex, attempt>>
       ELSE callState' = "calling" /\ modelIndex' = modelIndex + 1 /\ attempt' = 0

\* One await fn() of retryWithBackoff with what follows it.
GenerateContent(outcome) ==
    /\ callState = "calling"
    /\ calls' = Append(calls, [model |-> Models[modelIndex], attempt |-> attempt,
                               outcome |-> outcome])
    /\ IF outcome.kind = "raise"
       THEN IF attempt < MaxRetries - 1
            THEN /\ callState' = "backoff"
                 /\ delays' = Append(delays, BaseDelay * Pow2(attempt))
                 /\ lastError' = outcome.error
                 /\ UNCHANGED <<modelIndex, attempt>>
            ELSE ModelFailed(outcome.error) /\ UNCHANGED delays
       ELSE IF IsEmptyResponse(outcome.text)
            THEN ModelFailed("GenAI returned empty response") /\ UNCHANGED delays
            ELSE /\ callState' = "returned"
                 /\ UNCHANGED <<modelIndex, attempt, delays, lastError>>
    /\ UNCHANGED <<mergeVars, persistVars, postVars, extractVars, sideVars>>

\* The setTimeout of retryWithBackoff elapses: the next attempt.
BackoffElapsed ==
    /\ callState = "backoff"
    /\ callState' = "calling"
    /\ attempt' = attempt + 1
    /\ UNCHANGED <<modelIndex, calls, delays, lastError, mergeVars, persistVars, postVars, extractVars, sideVars>>

NextCall ==
    \/ \E outcome \in ModelOutcomes : GenerateContent(outcome)
    \/ BackoffElapsed

SpecCall == InitCall /\ [][NextCall]_vars

(***************************************************************************)
(* Concurrent ingestions persisting their merged statements (the body of   *)
(* the persistence loop of POST), sharing the record store.                *)
(***************************************************************************)
\* Number of external failures (store errors) in one run.
MaxFaults == 1

Ingestions == {1, 2}

\* Account A again: a later period, and the first period restated.
TplLaterA == Template("Bank X", "A", "2024-02-01", "2024-03-31",
                      "Current Account", "EGP", "250", "400", 2)
TplRestatedA == Template("Bank X", "A", "2024-01-01", "2024-01-31",
                         "Current Account", "EGP", "100", "300", 1)

\* The canonical statement an ingestion of one extracted statement merges.
MergedOf(tpl, name) ==
    mergeAccountStatements(Document(<<tpl>>, <<1>>), name).account_statements[1]

PersistStatements ==
    {MergedOf(tpl, "statement.pdf") :
        tpl \in {TplFullA, TplLaterA, TplRestatedA, TplFullB}}

\* What one ingestion persists: the merger returns one statement per account
\* number, so the statements of a list are of different accounts.
PendingLists ==
    {l \in UNION {[1..k -> PersistStatements] : k \in 0..Cardinality(PersistStatements)} :
        \A i, j \in 1..Len(l) :
            i # j => Trim(l[i].account_number) # Trim(l[j].account_number)}

\* The statement handed to the Persister (concurrencyStatement).
ConcurrencyStatement(statement, name) ==
    [bank_name |->
        IF Truthy(statement.bank_name) /\ Trim(statement.bank_name) # ""
        THEN statement.bank_name
        ELSE (IF Truthy(name) THEN name ELSE "Unknown Bank"),
     account_number |-> statement.account_number,
     statement_period |-> statement.statement_period,
     account_type |-> statement.account_type,
     account_currency |-> statement.account_currency,
     starting_balance |->
        IF Truthy(statement.starting_balance) THEN statement.starting_balance ELSE "0",
     ending_balance |->
        IF Truthy(statement.ending_balance) THEN statement.ending_balance ELSE "0",
     transactions |-> statement.transactions]

InitPersist ==
    /\ store = EmptyStore
    /\ pending \in [Ingestions -> PendingLists]
    /\ persistLog = <<>>
    /\ faults = 0
    /\ MergeIdle /\ CallIdle /\ PostIdle /\ ExtractIdle /\ SideIdle

\* One call of the Persister by ingestion c: it returns a ProcessingResult,
\* or raises and leaves the store as it was.
Submit(c, raises) ==
    /\ pending[c] # <<>>
    /\ raises => faults < MaxFaults
    /\ LET statement == ConcurrencyStatement(Head(pending[c]), "statement.pdf")
           r == processBankStatementWithConcurrency(store, statement)
       IN IF raises
          THEN /\ persistLog' = Append(persistLog,
                     [by |-> c, statement |-> statement, action |-> "ERROR",
                      bankStatementId |-> 0, wrote |-> FALSE])
               /\ faults' = faults + 1
               /\ UNCHANGED store
          ELSE /\ persistLog' = Append(persistLog,
                     [by |-> c, statement |-> statement, action |-> r.result.action,
                      bankStatementId |-> r.result.bankStatementId,
                      wrote |-> r.store # store])
               /\ store' = r.store
               /\ UNCHANGED faults
    /\ pending' = [pending EXCEPT ![c] = Tail(@)]
    /\ UNCHANGED <<mergeVars, callVars, postVars, extractVars, sideVars>>

NextPersist == \E c \in Ingestions, raises \in BOOLEAN : Submit(c, raises)

SpecPersist == InitPersist /\ [][NextPersist]_vars

(***************************************************************************)
(* The streaming POST handler: one request, from its validation to the end *)
(* of the stream.  An action is the code between two awaits; the client    *)
(* may cancel the stream while the handler awaits.                         *)
(***************************************************************************)
\* Number of page markers in a statement text.
MaxMarkers == 2

\* The empty string as a statement text.
NoText == [pre |-> "", segs |-> <<>>]

\* A text with k markers, each followed by blank text or by page text.
TextOf(contents) ==
    [pre |-> "header",
     segs |-> [m \in 1..Len(contents) |->
                    [pages |-> PageLabel(m), content |-> contents[m]]]]

\* A text of blanks, with no marker.
BlankText == [pre |-> "  ", segs |-> <<>>]

Texts ==
    {NoText, BlankText} \cup
    {TextOf(f) : f \in UNION {[1..k -> {"  ", "page text"}] : k \in 0..MaxMarkers}}

Requests ==
    {[statementText |-> t, fileName |-> "statement.pdf", supabaseUserId |-> "user-1"] :
        t \in Texts}
    \cup {[statementText |-> TextOf(<<>>), fileName |-> "", supabaseUserId |-> u] :
        u \in {"user-1", ""}}

\* What await processChunk(ai, chunk) can do: raise, or return the statements
\* the model listed for the chunk.
ChunkOutcomes ==
    {[ok |-> FALSE, tpls |-> <<>>]}
    \cup {[ok |-> TRUE, tpls |-> l] :
            l \in {<<>>, <<TplFullA, TplFullB>>, <<TplPartA>>}}

\* The store before the request: empty, or holding account A already.
StoreWith(tpl) ==
    processBankStatementWithConcurrency(EmptyStore,
        ConcurrencyStatement(MergedOf(tpl, "statement.pdf"), "statement.pdf")).store

\* The store after an earlier ingestion of tpl that validated its statement.
StoreValidated(tpl) ==
    [StoreWith(tpl) EXCEPT
        !.statements[1].validated = TRUE,
        !.statements[1].validationStatus = "passed",
        !.statements[1].validatedAt = "earlier"]

InitialStores == {EmptyStore, StoreWith(TplFullA), StoreValidated(TplFullA)}

\* An event: its type, the chunk number, statement index or statement id it
\* is about, a count it carries, and its message, action or status.
Ev(type, n, m, info) == [type |-> type, n |-> n, m |-> m, info |-> info]

Status(message) == Ev("status", 0, 0, message)

\* error.message?.includes(needle), on the messages of the model.
Includes(message, needle) ==
    <<message, needle>> \in
        {<<"No valid chunks found in the statement text", "No valid chunks found">>,
         <<"No account statements found in any of the processed chunks",
           "No account statements found">>}

\* errorMessage of the catch block of the chunked processing.
ErrorMessage(message) ==
    IF Includes(message, "INTERNAL") \/ Includes(message, "500")
    THEN "The AI service is temporarily unavailable. Please try again in a few minutes."
    ELSE IF Includes(message, "QUOTA_EXCEEDED") \/ Includes(message, "429")
    THEN "API rate limit exceeded. Please wait a moment and try again."
    ELSE IF Includes(message, "INVALID_ARGUMENT") \/ Includes(message, "400")
    THEN "The document format is not supported or the content is too complex to process."
    ELSE IF Includes(message, "PERMISSION_DENIED") \/ Includes(message, "403")
    THEN "API access is denied. Please check the server configuration."
    ELSE IF Includes(message, "No valid chunks found")
    THEN "The document format is not supported. Please ensure the document has proper page markers."
    ELSE IF Includes(message, "No account statements found")
    THEN "No valid account statements could be extracted from the document."
    ELSE "An unexpected error occurred during chunked processing."

AwaitPositions ==
    {"processChunk", "delay", "persist", "findUnique", "update", "counts", "import"}

InitPost ==
    /\ \E r \in Requests :
        /\ statementText = r.statementText
        /\ fileName = r.fileName
        /\ supabaseUserId = r.supabaseUserId
    /\ store \in InitialStores
    /\ pc = "request"
    /\ PostLocalsInit
    /\ chunkResults = <<>> /\ input = <<>> /\ returned = <<>>
    /\ pending = <<>> /\ persistLog = <<>> /\ faults = 0
    /\ CallIdle /\ ExtractIdle /\ SideIdle

\* The variables the handler never writes.
postFixed == <<requestVars, fileName, input, returned, callVars, pending,
               extractVars, sideVars>>

\* The catch block without its controller.close().
CatchError_NoClose(sent, message) ==
    /\ events' = sent \o <<Ev("error", 0, 0, ErrorMessage(message))>>
    /\ streamState' = "readable"
    /\ closes' = closes
    /\ pc' = "done"

\* The catch block of the chunked processing on a readable stream: the error
\* event, then controller.close().
CatchError(sent, message) ==
    /\ events' = sent \o <<Ev("error", 0, 0, ErrorMessage(message))>>
    /\ streamState' = "closed"
    /\ closes' = closes + 1
    /\ pc' = "done"

\* sendSSE on a cancelled stream: controller.enqueue throws, in the try block,
\* in each catch block that sends, and in the outer catch block, so start()
\* rejects with nothing sent and nothing closed.
Rejected ==
    /\ pc' = "rejected"
    /\ UNCHANGED <<streamState, events, closes>>

\* POST up to the first await of start(): the validation of the body, the
\* stream, the split.
Receive ==
    /\ pc = "request"
    /\ IF statementText = NoText
       THEN /\ response' = "400" /\ pc' = "responded"
            /\ UNCHANGED <<streamState, events, closes, chunks, chunkIdx>>
       ELSE IF ~Truthy(supabaseUserId)
       THEN /\ response' = "401" /\ pc' = "responded"
            /\ UNCHANGED <<streamState, events, closes, chunks, chunkIdx>>
       ELSE LET split == splitIntoChunks(statementText)
                sent == <<Status("Starting bank statement structuring process"),
                          Status("Initialized GenAI model for statement structuring"),
                          Status("Starting chunked processing approach")>>
            IN /\ response' = "stream"
               /\ chunks' = split
               /\ IF Len(split) = 0
                  THEN /\ CatchError(sent, "No valid chunks found in the statement text")
                       /\ UNCHANGED chunkIdx
                  ELSE /\ events' = sent \o <<Ev("chunks_prepared", 0, Len(split), "")>>
                       /\ streamState' = "readable"
                       /\ pc' = "chunk_start"
                       /\ chunkIdx' = 1
                       /\ UNCHANGED closes
    /\ UNCHANGED <<postFixed, chunkResults, failedChunks, statementVars, validationVars,
                   classificationVars, store, persistLog, faults>>

\* The head of the chunk loop: the next chunk, or the end of the loop.
ChunkStart ==
    /\ pc = "chunk_start"
    /\ IF chunkIdx > Len(chunks)
       THEN /\ events' = Append(events, Status("Merging results from all chunks"))
            /\ pc' = "merge"
       ELSE /\ events' = Append(events,
                    Ev("chunk_start", chunks[chunkIdx].chunkNumber, Len(chunks),
                       chunks[chunkIdx].pages))
            /\ pc' = "processChunk"
    /\ UNCHANGED <<postFixed, response, streamState, closes, chunkVars, chunkResults,
                   statementVars, validationVars, classificationVars, store,
                   persistLog, faults>>

\* await processChunk(ai, chunk) settles.
ChunkDone(outcome) ==
    /\ pc = "processChunk"
    /\ LET chunk == chunks[chunkIdx]
           chunkResult ==
               [chunk_number |-> chunk.chunkNumber, pages |-> chunk.pages,
                account_statements |->
                    [s \in 1..Len(outcome.tpls) |->
                        ExtractedStatement(outcome.tpls[s], chunk.chunkNumber, s)]]
           emptyResult ==
               [chunk_number |-> chunk.chunkNumber, pages |-> chunk.pages,
                account_statements |-> <<>>]
       IN IF outcome.ok
          THEN /\ chunkResults' = Append(chunkResults, chunkResult)
               /\ UNCHANGED failedChunks
               /\ IF streamState = "cancelled"
                  THEN Rejected /\ UNCHANGED chunkIdx
                  ELSE /\ events' = Append(events,
                               Ev("chunk_complete", chunk.chunkNumber,
                                  Len(chunkResult.account_statements), chunk.pages))
                       /\ UNCHANGED <<streamState, closes>>
                       /\ IF Len(chunks) > 1
                          THEN pc' = "delay" /\ UNCHANGED chunkIdx
                          ELSE pc' = "chunk_start" /\ chunkIdx' = chunkIdx + 1
          ELSE /\ failedChunks' = failedChunks \cup {chunk.chunkNumber}
               /\ IF streamState = "cancelled"
                  THEN Rejected /\ UNCHANGED <<chunkIdx, chunkResults>>
                  ELSE /\ events' = Append(events,
                               Ev("chunk_error", chunk.chunkNumber, 0, chunk.pages))
                       /\ chunkResults' = Append(chunkResults, emptyResult)
                       /\ UNCHANGED <<streamState, closes>>
                       /\ pc' = "chunk_start" /\ chunkIdx' = chunkIdx + 1
    /\ UNCHANGED <<postFixed, response, chunks, statementVars, validationVars,
                   classificationVars, store, persistLog, faults>>

\* The delay between chunks elapses.
DelayElapsed ==
    /\ pc = "delay"
    /\ IF streamState = "cancelled"
       THEN Rejected /\ UNCHANGED chunkIdx
       ELSE /\ pc' = "chunk_start" /\ chunkIdx' = chunkIdx + 1
            /\ UNCHANGED <<streamState, events, closes>>
    /\ UNCHANGED <<postFixed, response, chunks, failedChunks, chunkResults,
                   statementVars, validationVars, classificationVars, store,
                   persistLog, faults>>

\* mergeAccountStatements(chunkResults, fileName) and the check of its result.
Merge ==
    /\ pc = "merge"
    /\ LET r == mergeAccountStatements(chunkResults, fileName) IN
        /\ chunkResults' = r.chunkResults
        /\ structuredData' = r.account_statements
        /\ IF Len(r.account_statements) = 0
           THEN /\ CatchError(events,
                        "No account statements found in any of the processed chunks")
                /\ UNCHANGED stmtIdx
           ELSE /\ events' = events \o
                        <<Ev("merge_complete", 0, Len(r.account_statements), ""),
                          Status("Processing merged data with concurrency handling")>>
                /\ pc' = "statement_start"
                /\ stmtIdx' = 1
                /\ UNCHANGED <<streamState, closes>>
    /\ UNCHANGED <<postFixed, response, chunkVars, processingResults, savedStatementIds,
                   validationVars, classificationVars, store, persistLog, faults>>

\* The head of the persistence loop: statement_start for the next statement,
\* which is skipped when it has no account number, or the end of the loop.
StatementStart ==
    /\ pc = "statement_start"
    /\ IF stmtIdx > Len(structuredData)
       THEN /\ events' = Append(events,
                    Status("Performing automatic validation on saved statements"))
            /\ pc' = "validation_start"
            /\ valIdx' = 1
            /\ UNCHANGED stmtIdx
       ELSE LET statement == structuredData[stmtIdx]
                started == Append(events,
                    Ev("statement_start", stmtIdx, Len(structuredData),
                       statement.account_number))
            IN /\ UNCHANGED valIdx
               /\ IF ~Truthy(statement.account_number)
                     \/ Trim(statement.account_number) = ""
                  THEN /\ events' = Append(started,
                               Ev("statement_skip", stmtIdx, 0, "Missing account number"))
                       /\ stmtIdx' = stmtIdx + 1
                       /\ UNCHANGED pc
                  ELSE /\ events' = started
                       /\ pc' = "persist"
                       /\ UNCHANGED stmtIdx
    /\ UNCHANGED <<postFixed, response, streamState, closes, chunkVars, chunkResults,
                   structuredData, processingResults, savedStatementIds,
                   validationResult, statementsWithCounts, classificationVars,
                   store, persistLog, faults>>

\* await processBankStatementWithConcurrency(...) settles: it raises for a
\* statement the store cannot hold or on a store failure, else it returns.
PersistDone(raises) ==
    /\ pc = "persist"
    /\ LET statement == ConcurrencyStatement(structuredData[stmtIdx], fileName)
           r == processBankStatementWithConcurrency(store, statement)
       IN /\ raises => (~Storable(statement) \/ faults < MaxFaults)
          /\ ~raises => Storable(statement)
          /\ IF raises
             THEN /\ persistLog' = Append(persistLog,
                        [by |-> 0, statement |-> statement, action |-> "ERROR",
                         bankStatementId |-> 0, wrote |-> FALSE])
                  /\ faults' = IF Storable(statement) THEN faults + 1 ELSE faults
                  /\ UNCHANGED <<store, processingResults, savedStatementIds>>
                  /\ IF streamState = "cancelled"
                     THEN Rejected /\ UNCHANGED stmtIdx
                     ELSE /\ events' = Append(events,
                                  Ev("statement_error", stmtIdx, Len(structuredData),
                                     statement.account_number))
                          /\ pc' = "statement_start" /\ stmtIdx' = stmtIdx + 1
                          /\ UNCHANGED <<streamState, closes>>
             ELSE /\ persistLog' = Append(persistLog,
                        [by |-> 0, statement |-> statement, action |-> r.result.action,
                         bankStatementId |-> r.result.bankStatementId,
                         wrote |-> r.store # store])
                  /\ store' = r.store
                  /\ processingResults' = Append(processingResults, r.result)
                  /\ savedStatementIds' =
                        IF r.result.action # "SKIP_DUPLICATE"
                        THEN Append(savedStatementIds, r.result.bankStatementId)
                        ELSE savedStatementIds
                  /\ UNCHANGED faults
                  /\ IF streamState = "cancelled"
                     THEN Rejected /\ UNCHANGED stmtIdx
                     ELSE /\ events' = Append(events,
                                  Ev("statement_complete", stmtIdx,
                                     r.result.transactionCount, r.result.action))
                          /\ pc' = "statement_start" /\ stmtIdx' = stmtIdx + 1
                          /\ UNCHANGED <<streamState, closes>>
    /\ UNCHANGED <<postFixed, response, chunkVars, chunkResults, structuredData,
                   validationVars, classificationVars>>

\* const totalProcessed ... newStatements
CountAction(actions) ==
    Len(SelectSeq(processingResults, LAMBDA r : r.action \in actions))

\* The head of the validation loop: the next saved statement, or the
\* processing summary and the start of the count queries.
ValidationStart ==
    /\ pc = "validation_start"
    /\ IF valIdx > Len(savedStatementIds)
       THEN /\ events' = Append(events,
                    Ev("processing_summary", Len(processingResults),
                       CountAction({"CREATE_NEW", "ADD_TO_EXISTING_BANK"}), ""))
            /\ pc' = "counts"
       ELSE /\ events' = Append(events,
                    Ev("validation_start", savedStatementIds[valIdx], 0, ""))
            /\ pc' = "findUnique"
    /\ UNCHANGED <<postFixed, response, streamState, closes, chunkVars, chunkResults,
                   statementVars, validationVars, classificationVars, store,
                   persistLog, faults>>

\* await prisma.bankStatement.findUnique(...) settles: the statement, null,
\* or an error.
FindUniqueDone(outcome) ==
    /\ pc = "findUnique"
    /\ outcome # "found" => faults < MaxFaults
    /\ faults' = IF outcome = "found" THEN faults ELSE faults + 1
    /\ CASE outcome = "found" ->
                /\ validationResult' =
                        performAutoValidation(store.statements[savedStatementIds[valIdx]])
                /\ pc' = "update"
                /\ UNCHANGED <<valIdx, streamState, events, closes>>
         [] outcome = "null" ->
                /\ UNCHANGED validationResult
                /\ IF streamState = "cancelled"
                   THEN Rejected /\ UNCHANGED valIdx
                   ELSE /\ pc' = "validation_start" /\ valIdx' = valIdx + 1
                        /\ UNCHANGED <<streamState, events, closes>>
         [] outcome = "throw" ->
                /\ UNCHANGED validationResult
                /\ IF streamState = "cancelled"
                   THEN Rejected /\ UNCHANGED valIdx
                   ELSE /\ events' = Append(events,
                                Ev("validation_error", savedStatementIds[valIdx], 0, ""))
                        /\ pc' = "validation_start" /\ valIdx' = valIdx + 1
                        /\ UNCHANGED <<streamState, closes>>
    /\ UNCHANGED <<postFixed, response, chunkVars, chunkResults, statementVars,
                   statementsWithCounts, classificationVars, store, persistLog>>

\* The data of prisma.bankStatement.update(...), were it to replace the
\* transactions of the statement as well.
ValidationUpdate_ReplacesTransactions(st, id, result) ==
    [st EXCEPT
        !.statements[id].validated = result.status = "passed",
        !.statements[id].validationStatus = result.status,
        !.statements[id].validatedAt =
            IF result.status = "passed" THEN "now" ELSE "null",
        !.statements[id].transactions = <<>>]

\* The data of prisma.bankStatement.update(...), with the stamp of an earlier
\* validation left as it was.
ValidationUpdate_KeepsStamp(st, id, result) ==
    [st EXCEPT
        !.statements[id].validated = result.status = "passed",
        !.statements[id].validationStatus = result.status]

\* The data of prisma.bankStatement.update(...): validated,
\* validationStatus and validatedAt of statement id.
ValidationUpdate(st, id, result) ==
    [st EXCEPT
        !.statements[id].validated = result.status = "passed",
        !.statements[id].validationStatus = result.status,
        !.statements[id].validatedAt =
            IF result.status = "passed" THEN "now" ELSE "null"]

\* await prisma.bankStatement.update(...) settles.
UpdateDone(ok) ==
    /\ pc = "update"
    /\ ~ok => faults < MaxFaults
    /\ faults' = IF ok THEN faults ELSE faults + 1
    /\ LET id == savedStatementIds[valIdx]
       IN /\ store' = IF ok THEN ValidationUpdate(store, id, validationResult)
                      ELSE store
          /\ IF streamState = "cancelled"
             THEN Rejected /\ UNCHANGED valIdx
             ELSE /\ events' = Append(events,
                        IF ok
                        THEN Ev("validation_complete", id, 0, validationResult.status)
                        ELSE Ev("validation_error", id, 0, ""))
                  /\ pc' = "validation_start" /\ valIdx' = valIdx + 1
                  /\ UNCHANGED <<streamState, closes>>
    /\ UNCHANGED <<postFixed, response, chunkVars, chunkResults, statementVars,
                   validationResult, statementsWithCounts, classificationVars,
                   persistLog>>

\* await Promise.all(savedStatementIds.map(...)) settles: the counts, or the
\* error of a query, which the catch block of the chunked processing gets.
CountsDone(ok) ==
    /\ pc = "counts"
    /\ ~ok => (faults < MaxFaults /\ savedStatementIds # <<>>)
    /\ faults' = IF ok THEN faults ELSE faults + 1
    /\ IF ok
       THEN /\ statementsWithCounts' =
                    [k \in 1..Len(savedStatementIds) |->
                        [id |-> savedStatementIds[k],
                         transactionCount |->
                            Len(store.statements[savedStatementIds[k]].transactions)]]
            /\ IF streamState = "cancelled"
               THEN Rejected /\ UNCHANGED clsIdx
               ELSE /\ events' = Append(events,
                        Status("Triggering automatic classification for saved statements"))
                    /\ pc' = "classification_start" /\ clsIdx' = 1
                    /\ UNCHANGED <<streamState, closes>>
       ELSE /\ UNCHANGED <<statementsWithCounts, clsIdx>>
            /\ IF streamState = "cancelled"
               THEN Rejected
               ELSE CatchError(events, "Can't reach database server")
    /\ UNCHANGED <<postFixed, response, chunkVars, chunkResults, statementVars,
                   valIdx, validationResult, classificationResults, classifying,
                   classified,
                   store, persistLog>>

\* The head of the classification loop, were a status event to be sent after
\* the complete event.
ClassificationStart_StatusAfterComplete ==
    /\ pc = "classification_start"
    /\ IF clsIdx > Len(savedStatementIds)
       THEN /\ events' = events \o
                    <<Ev("complete", Len(chunks), Len(statementsWithCounts), "true"),
                      Status("Processing finished")>>
            /\ streamState' = "closed"
            /\ closes' = closes + 1
            /\ pc' = "done"
       ELSE /\ events' = Append(events,
                    Ev("classification_start", savedStatementIds[clsIdx], 0, ""))
            /\ pc' = "import"
            /\ UNCHANGED <<streamState, closes>>
    /\ UNCHANGED <<postFixed, response, chunkVars, chunkResults, statementVars,
                   validationVars, classificationVars, store, persistLog, faults>>

\* The head of the classification loop: the next saved statement, or the
\* complete event and controller.close().
ClassificationStart ==
    /\ pc = "classification_start"
    /\ IF clsIdx > Len(savedStatementIds)
       THEN /\ events' = Append(events,
                    Ev("complete", Len(chunks), Len(statementsWithCounts), "true"))
            /\ streamState' = "closed"
            /\ closes' = closes + 1
            /\ pc' = "done"
       ELSE /\ events' = Append(events,
                    Ev("classification_start", savedStatementIds[clsIdx], 0, ""))
            /\ pc' = "import"
            /\ UNCHANGED <<streamState, closes>>
    /\ UNCHANGED <<postFixed, response, chunkVars, chunkResults, statementVars,
                   validationVars, classificationVars, store, persistLog, faults>>

\* await import(classificationService) settles; on success the
\* classification is started and not awaited.
ImportDone(ok) ==
    /\ pc = "import"
    /\ ~ok => faults < MaxFaults
    /\ faults' = IF ok THEN faults ELSE faults + 1
    /\ LET id == savedStatementIds[clsIdx]
           triggered == [statementId |-> id, status |-> "triggered"]
           failed == [statementId |-> id, status |-> "failed"]
       IN /\ classifying' = IF ok THEN classifying \cup {id} ELSE classifying
          /\ IF streamState = "cancelled"
             THEN /\ Rejected /\ UNCHANGED clsIdx
                  /\ classificationResults' =
                        classificationResults \o
                            (IF ok THEN <<triggered, failed>> ELSE <<failed>>)
             ELSE /\ classificationResults' =
                        Append(classificationResults, IF ok THEN triggered ELSE failed)
                  /\ events' = Append(events,
                        Ev(IF ok THEN "classification_triggered"
                           ELSE "classification_error", id, 0, ""))
                  /\ pc' = "classification_start" /\ clsIdx' = clsIdx + 1
                  /\ UNCHANGED <<streamState, closes>>
    /\ UNCHANGED <<postFixed, response, chunkVars, chunkResults, statementVars,
                   validationVars, classified, store, persistLog>>

\* A classification that was started settles with its promise rejected, and
\* the rejection reaches the catch block of the chunked processing.
ClassificationSettled_Propagates(id, ok) ==
    /\ id \in classifying
    /\ classifying' = classifying \ {id}
    /\ classified' = classified \cup {[statementId |-> id, ok |-> ok]}
    /\ IF ok \/ streamState # "readable"
       THEN UNCHANGED <<pc, streamState, events, closes>>
       ELSE CatchError(events, "Classification failed")
    /\ UNCHANGED <<postFixed, response, chunkVars, chunkResults, statementVars,
                   validationVars, clsIdx, classificationResults, store,
                   persistLog, faults>>

\* A classification that was started settles, at any time from then on: its
\* .then or its .catch handler logs the outcome.
ClassificationSettled(id, ok) ==
    /\ id \in classifying
    /\ classifying' = classifying \ {id}
    /\ classified' = classified \cup {[statementId |-> id, ok |-> ok]}
    /\ UNCHANGED <<postFixed, pc, response, streamVars, chunkVars, chunkResults,
                   statementVars, validationVars, clsIdx, classificationResults,
                   store, persistLog, faults>>

\* The client cancels the stream (it disconnects) while the handler awaits.
Cancel ==
    /\ pc \in AwaitPositions
    /\ streamState = "readable"
    /\ streamState' = "cancelled"
    /\ UNCHANGED <<postFixed, pc, response, events, closes, chunkVars, chunkResults,
                   statementVars, validationVars, classificationVars, store,
                   persistLog, faults>>

NextPost ==
    \/ Receive
    \/ ChunkStart
    \/ \E outcome \in ChunkOutcomes : ChunkDone(outcome)
    \/ DelayElapsed
    \/ Merge
    \/ StatementStart
    \/ \E raises \in BOOLEAN : PersistDone(raises)
    \/ ValidationStart
    \/ \E outcome \in {"found", "null", "throw"} : FindUniqueDone(outcome)
    \/ \E ok \in BOOLEAN : UpdateDone(ok)
    \/ \E ok \in BOOLEAN : CountsDone(ok)
    \/ ClassificationStart
    \/ \E ok \in BOOLEAN : ImportDone(ok)
    \/ \E id \in classifying, ok \in BOOLEAN : ClassificationSettled(id, ok)
    \/ Cancel

SpecPost == InitPost /\ [][NextPost]_vars

(***************************************************************************)
(* performAutoValidation as a state machine: one stored statement, loaded  *)
(* with its transactions, is validated.                                    *)
(***************************************************************************)
\* Stored balances, in hundredths.
ValidationBalances == {0, 1, 29, 30, 100, 101, 200, 201, 100000, 140000, 150000}

StoredAmount(credit, debit) ==
    [description |-> "tx", creditAmount |-> credit, debitAmount |-> debit]

\* Stored transaction lists, amounts in hundredths.
ValidationTransactions ==
    {<<>>,
     <<StoredAmount(1, 0)>>,
     <<StoredAmount(0, 1)>>,
     <<StoredAmount(10, 0), StoredAmount(20, 0)>>,
     <<StoredAmount(50000, 0), StoredAmount(20000, 0), StoredAmount(0, 30000)>>}

StoredStatement(startingBalance, endingBalance, transactions) ==
    [id |-> 1, bankName |-> "CIB", accountNumber |-> "100200300",
     statementPeriodStart |-> "2024-01-01", statementPeriodEnd |-> "2024-01-31",
     startingBalance |-> startingBalance, endingBalance |-> endingBalance,
     transactions |-> transactions]

InitValidate ==
    /\ \E startingBalance \in ValidationBalances, endingBalance \in ValidationBalances,
          transactions \in ValidationTransactions :
           store = [banks |-> {"CIB"},
                    statements |-> <<StoredStatement(startingBalance, endingBalance,
                                                     transactions)>>]
    /\ pending = <<>> /\ persistLog = <<>> /\ faults = 0
    /\ statementText = [pre |-> "", segs |-> <<>>] /\ supabaseUserId = ""
    /\ pc = "validate"
    /\ PostLocalsInit
    /\ MergeIdle /\ CallIdle /\ ExtractIdle /\ SideIdle

\* validationResult = await performAutoValidation(statement)
AutoValidate ==
    /\ pc = "validate"
    /\ validationResult' = performAutoValidation(store.statements[1])
    /\ pc' = "validated"
    /\ UNCHANGED <<mergeVars, callVars, persistVars, requestVars, streamVars,
                   chunkVars, statementVars, valIdx, statementsWithCounts,
                   classificationVars, extractVars, sideVars>>

NextValidate == AutoValidate

SpecValidate == InitValidate /\ [][NextValidate]_vars

(***************************************************************************)
(* processChunk from the return of callGeminiAPI on: the response is       *)
(* cleaned, parsed, and fixed by hand and parsed again when the first      *)
(* parse throws.                                                           *)
(***************************************************************************)
\* The longest JSON part of a response, in tokens.
MaxBody == 4

BodyTokens == {"{", "}", "[", "]", ",", "k", "v", "\n"}

\* What the model writes before and after the JSON part: nothing, a code
\* fence with or without the word json, or prose.
Prefixes == {<<>>, <<"fence", "json", "\n">>, <<"fence", "\n">>, <<"x", " ">>}
Suffixes == {<<>>, <<"\n", "fence">>, <<" ", "x">>}

IsResponse(text) ==
    \E prefix \in Prefixes, suffix \in Suffixes :
        \E n \in 0..MaxBody :
            \E body \in [1..n -> BodyTokens] :
                text = prefix \o body \o suffix

InitExtract ==
    /\ IsResponse(responseText)
    /\ parseResult = NotParsed
    /\ store = EmptyStore /\ pending = <<>> /\ persistLog = <<>> /\ faults = 0
    /\ statementText = [pre |-> "", segs |-> <<>>] /\ supabaseUserId = ""
    /\ pc = "parse"
    /\ PostLocalsInit
    /\ MergeIdle /\ CallIdle /\ SideIdle

\* const cleanedText = validateAndFixJSON(responseText) and the parsing that
\* follows: processChunk returns the chunk's data or throws.
ParseChunk ==
    /\ pc = "parse"
    /\ parseResult' = ParseResponse(responseText)
    /\ pc' = IF parseResult'.outcome = "parsed" THEN "returned" ELSE "thrown"
    /\ UNCHANGED <<mergeVars, callVars, persistVars, requestVars, streamVars,
                   chunkVars, statementVars, validationVars, classificationVars,
                   responseText, sideVars>>

NextExtract == ParseChunk

SpecExtract == InitExtract /\ [][NextExtract]_vars

(***************************************************************************)
(* The end of processChunk and the merge that follows: what JSON.parse     *)
(* returned for each chunk becomes a ChunkData, and the ChunkData of the   *)
(* chunks are merged.  A JavaScript value is undefined, null, an array of  *)
(* statements or one statement object.                                     *)
(***************************************************************************)
Undefined == [kind |-> "undefined", items |-> <<>>]
Null == [kind |-> "null", items |-> <<>>]
ArrayOf(statements) == [kind |-> "array", items |-> statements]
ObjectOf(statement) == [kind |-> "object", items |-> <<statement>>]

\* JavaScript truthiness of a value, and Array.isArray.
TruthyValue(v) == v.kind \in {"array", "object"}
IsArray(v) == v.kind = "array"

\* The parsed response: its account_statements and account_statement keys,
\* and the statement fields the object carries itself (self).
Parsed(plural, singular, self) ==
    [account_statements |-> plural, account_statement |-> singular, self |-> self]

\* data.bank_name || data.account_number
LooksLikeAccount(data) ==
    /\ data.self.kind = "object"
    /\ Truthy(data.self.items[1].bank_name) \/ Truthy(data.self.items[1].account_number)

\* normalizeData(data).account_statements
normalizeData(data) ==
    IF ~TruthyValue(data.account_statements)
    THEN IF TruthyValue(data.account_statement)
         THEN ArrayOf(data.account_statement.items)
         ELSE IF LooksLikeAccount(data)
         THEN ArrayOf(data.self.items)
         ELSE ArrayOf(<<>>)
    ELSE IF ~IsArray(data.account_statements)
    THEN ArrayOf(data.account_statements.items)
    ELSE data.account_statements

\* The return statement of processChunk: parsedData.account_statements || []
ChunkAccountStatements(data) ==
    IF TruthyValue(data.account_statements) THEN data.account_statements
    ELSE ArrayOf(<<>>)

\* The statements a response can list.
ShapeTemplates == {TplFullA, TplContA, TplFullB}

\* The responses for chunk c, well shaped and badly shaped.
ParsedShapes(c) ==
    LET one == {ExtractedStatement(tpl, c, 1) : tpl \in ShapeTemplates}
        two == {<<ExtractedStatement(t1, c, 1), ExtractedStatement(t2, c, 2)>> :
                    t1 \in ShapeTemplates, t2 \in ShapeTemplates}
    IN {Parsed(ArrayOf(l), Undefined, Undefined) : l \in {<<>>} \cup {<<x>> : x \in one} \cup two}
       \cup {Parsed(ObjectOf(x), Undefined, Undefined) : x \in one}
       \cup {Parsed(Undefined, ObjectOf(x), Undefined) : x \in one}
       \cup {Parsed(Undefined, Undefined, ObjectOf(x)) : x \in one}
       \cup {Parsed(Undefined, Undefined, Undefined), Parsed(Null, Undefined, Undefined)}

\* The chunkResults POST hands to the merger, when every account_statements
\* is an array.
AsChunkResults(data) ==
    [k \in 1..Len(data) |->
        [chunk_number |-> data[k].chunk_number, pages |-> data[k].pages,
         account_statements |-> data[k].account_statements.items]]

InitShape ==
    /\ \E n \in 1..2 : \E shapes \in [1..n -> UNION {ParsedShapes(c) : c \in 1..2}] :
        /\ \A c \in 1..n : shapes[c] \in ParsedShapes(c)
        /\ parsedData = shapes
    /\ chunkData = <<>>
    /\ chunkResults = <<>> /\ fileName = "statement.pdf" /\ input = <<>>
    /\ returned = <<>>
    /\ store = EmptyStore /\ pending = <<>> /\ persistLog = <<>> /\ faults = 0
    /\ statementText = [pre |-> "", segs |-> <<>>] /\ supabaseUserId = ""
    /\ pc = "return"
    /\ PostLocalsInit
    /\ CallIdle /\ ExtractIdle /\ ConvertIdle /\ LegacyIdle /\ PutIdle

\* processChunk returns the ChunkData of the next chunk.
ReturnChunk ==
    /\ pc = "return"
    /\ LET c == Len(chunkData) + 1 IN
        /\ chunkData' = Append(chunkData,
                [chunk_number |-> c, pages |-> PageLabel(c),
                 account_statements |-> ChunkAccountStatements(parsedData[c])])
        /\ pc' = IF c = Len(parsedData) THEN "merge" ELSE "return"
    /\ UNCHANGED <<mergeVars, callVars, persistVars, requestVars, streamVars,
                   chunkVars, statementVars, validationVars, classificationVars,
                   extractVars, putVars, parsedData, convertVars, legacyVars>>

\* mergeAccountStatements(chunkResults, fileName): for ... of over an
\* account_statements that is no array raises a TypeError.
MergeChunks ==
    /\ pc = "merge"
    /\ IF \A k \in 1..Len(chunkData) : IsArray(chunkData[k].account_statements)
       THEN LET r == mergeAccountStatements(AsChunkResults(chunkData), fileName) IN
            /\ input' = AsChunkResults(chunkData)
            /\ chunkResults' = r.chunkResults
            /\ returned' = <<r.account_statements>>
            /\ pc' = "merged"
       ELSE /\ pc' = "thrown"
            /\ UNCHANGED <<chunkResults, input, returned>>
    /\ UNCHANGED <<fileName, callVars, persistVars, requestVars, streamVars,
                   chunkVars, statementVars, validationVars, classificationVars,
                   extractVars, putVars, shapeVars, convertVars, legacyVars>>

NextShape == ReturnChunk \/ MergeChunks

SpecShape == InitShape /\ [][NextShape]_vars

(***************************************************************************)
(* convertToDecimal, and the balance the non-streaming route stores.  A    *)
(* value is undefined, null, a number or a string; a string, and the       *)
(* String(...) of a number, is a sequence of characters.  A Decimal is a   *)
(* sign, the digits before the point without leading zeros and the digits *)
(* after it without trailing zeros.                                        *)
(***************************************************************************)
\* The longest amount string, in characters.
MaxAmountLen == 3

Digits == {"0", "1", "2", "3", "4", "5", "6", "7", "8", "9"}

UndefinedAmount == [type |-> "undefined", chars |-> <<>>]
NullAmount == [type |-> "null", chars |-> <<>>]
NumberAmount(chars) == [type |-> "number", chars |-> chars]
StringAmount(chars) == [type |-> "string", chars |-> chars]

\* !value
FalsyAmount(value) ==
    \/ value.type \in {"undefined", "null"}
    \/ value.type = "string" /\ value.chars = <<>>
    \/ value.type = "number" /\ value.chars \in {<<"0">>, <<"-", "0">>}

\* String.prototype.toLowerCase, on the letters of the model.
LowerChar(c) ==
    CASE c = "U" -> "u"
      [] c = "N" -> "n"
      [] c = "A" -> "a"
      [] c = "E" -> "e"
      [] OTHER -> c

ToLowerCase(chars) == [k \in 1..Len(chars) |-> LowerChar(chars[k])]

UnknownWord == <<"u", "n", "k", "n", "o", "w", "n">>

\* stringValue.replace(/[^0-9.-]/g, '')
CleanedValue(chars) == SelectSeq(chars, LAMBDA c : c \in Digits \cup {".", "-"})

RECURSIVE StripLeadingZeros(_)
StripLeadingZeros(d) ==
    IF d # <<>> /\ Head(d) = "0" THEN StripLeadingZeros(Tail(d)) ELSE d

RECURSIVE StripTrailingZeros(_)
StripTrailingZeros(d) ==
    IF d # <<>> /\ d[Len(d)] = "0" THEN StripTrailingZeros(SubSeq(d, 1, Len(d) - 1))
    ELSE d

NoDecimal == [kind |-> "null", negative |-> FALSE, int |-> <<>>, frac |-> <<>>]

DecimalZero == [kind |-> "decimal", negative |-> FALSE, int |-> <<>>, frac |-> <<>>]

\* new Decimal(v) on a string of digits, points and minus signs: one leading
\* minus sign is the sign, and the rest has to be digits with at most one
\* point and at least one digit, else the constructor throws ("thrown").
NewDecimal(v) ==
    LET negative == v # <<>> /\ Head(v) = "-"
        u == IF negative THEN Tail(v) ELSE v
        points == {k \in 1..Len(u) : u[k] = "."}
        point == IF points = {} THEN Len(u) + 1 ELSE CHOOSE k \in points : TRUE
    IN IF /\ \A k \in 1..Len(u) : u[k] \in Digits \cup {"."}
          /\ Cardinality(points) <= 1
          /\ \E k \in 1..Len(u) : u[k] \in Digits
       THEN [kind |-> "decimal", negative |-> negative,
             int |-> StripLeadingZeros(SubSeq(u, 1, point - 1)),
             frac |-> StripTrailingZeros(SubSeq(u, point + 1, Len(u)))]
       ELSE [kind |-> "thrown", negative |-> FALSE, int |-> <<>>, frac |-> <<>>]

convertToDecimal(value) ==
    IF FalsyAmount(value) THEN NoDecimal
    ELSE LET stringValue == value.chars
             cleanedValue == CleanedValue(stringValue)
         IN IF ToLowerCase(stringValue) = UnknownWord THEN NoDecimal
            ELSE IF cleanedValue = <<>> \/ cleanedValue = <<"-">> THEN NoDecimal
            ELSE IF NewDecimal(cleanedValue).kind = "thrown" THEN NoDecimal
            ELSE NewDecimal(cleanedValue)

\* startingBalance || new Decimal(0): a Decimal object is truthy, null is not.
BalanceToStore(startingBalance) ==
    IF startingBalance.kind = "null" THEN DecimalZero ELSE startingBalance

AmountChars == {"0", "5", ".", "-", ",", "E"}

\* The amounts a response can hold.
IsAmount(value) ==
    \/ value \in {UndefinedAmount, NullAmount}
    \/ \E chars \in {<<"0">>, <<"5">>, <<"-", "5">>, <<"0", ".", "5">>} :
            value = NumberAmount(chars)
    \/ \E chars \in {UnknownWord, <<"U", "n", "k", "n", "o", "w", "n">>,
                     <<"N", "/", "A">>} :
            value = StringAmount(chars)
    \/ \E n \in 0..MaxAmountLen : \E chars \in [1..n -> AmountChars] :
            value = StringAmount(chars)

InitConvert ==
    /\ IsAmount(amount)
    /\ decimal = "none" /\ storedBalance = "none"
    /\ store = EmptyStore /\ pending = <<>> /\ persistLog = <<>> /\ faults = 0
    /\ statementText = [pre |-> "", segs |-> <<>>] /\ supabaseUserId = ""
    /\ pc = "convert"
    /\ PostLocalsInit
    /\ MergeIdle /\ CallIdle /\ ExtractIdle /\ ShapeIdle /\ LegacyIdle /\ PutIdle

\* const startingBalance = convertToDecimal(statement.starting_balance)
Convert ==
    /\ pc = "convert"
    /\ decimal' = convertToDecimal(amount)
    /\ pc' = "converted"
    /\ UNCHANGED <<mergeVars, callVars, persistVars, requestVars, streamVars,
                   chunkVars, statementVars, validationVars, classificationVars,
                   extractVars, putVars, shapeVars, amount, storedBalance,
                   legacyVars>>

\* prisma.bankStatement.create({data: {startingBalance: startingBalance ||
\* new Decimal(0), ...}})
StoreBalance ==
    /\ pc = "converted"
    /\ storedBalance' = BalanceToStore(decimal)
    /\ pc' = "stored"
    /\ UNCHANGED <<mergeVars, callVars, persistVars, requestVars, streamVars,
                   chunkVars, statementVars, validationVars, classificationVars,
                   extractVars, putVars, shapeVars, amount, decimal, legacyVars>>

NextConvert == Convert \/ StoreBalance

SpecConvert == InitConvert /\ [][NextConvert]_vars

(***************************************************************************)
(* The non-streaming route (unnamed/part_001): the loop of POST that saves *)
(* the statements of normalizeData(parsedData), run by two requests that   *)
(* share the record store.  An action is the code between two awaits.      *)
(***************************************************************************)
\* The responses of the two requests: the statements each lists.
LegacyTemplates == {TplFullA, TplFullB, TplContA}

\* The s-th statement of a response, each transaction with the date the
\* response gives it.
LegacyStatement(tpl, s, date) ==
    LET statement == ExtractedStatement(tpl, 1, s) IN
    [statement EXCEPT !.transactions =
        [k \in 1..Len(statement.transactions) |->
            [description |-> statement.transactions[k].description,
             credit_amount |-> statement.transactions[k].credit_amount,
             debit_amount |-> statement.transactions[k].debit_amount,
             date |-> date]]]

\* A transaction date, and the dates of transactions that show none.
TransactionDay == "2024-01-31"
NoTransactionDays == {"", CONTINUATION}

LegacyResponses ==
    {Parsed(ArrayOf(<<>>), Undefined, Undefined)}
    \cup {Parsed(ArrayOf(<<LegacyStatement(t, 1, TransactionDay)>>),
                 Undefined, Undefined) :
            t \in LegacyTemplates}
    \cup {Parsed(ArrayOf(<<LegacyStatement(t1, 1, TransactionDay),
                           LegacyStatement(t2, 2, TransactionDay)>>),
                 Undefined, Undefined) :
            t1 \in LegacyTemplates, t2 \in LegacyTemplates}
    \cup {Parsed(ArrayOf(<<LegacyStatement(TplFullA, 1, TransactionDay),
                           LegacyStatement(TplFullB, 2, d)>>),
                 Undefined, Undefined) :
            d \in NoTransactionDays}
    \cup {Parsed(ObjectOf(LegacyStatement(TplFullA, 1, TransactionDay)),
                 Undefined, Undefined),
          Parsed(Undefined, ObjectOf(LegacyStatement(TplFullA, 1, TransactionDay)),
                 Undefined)}

\* convertToDate(dateValue) throws for a missing value and for no date.
ConvertToDateThrows(dateValue) == ~Truthy(dateValue) \/ IsNaNDate(dateValue)

\* convertToDecimal(value) returns null: the value is empty or unknown, or
\* nothing is left of it without the characters that are no digit, point or
\* minus sign.
NoDecimalIn(value) ==
    ~Truthy(value) \/ LowerIsUnknown(value) \/ value \in {"  ", CONTINUATION}

\* convertToDecimal(value) || null
DecimalOrNull(value) == IF NoDecimalIn(value) THEN "null" ELSE ToCents(value)

\* An element of transactions.create.
LegacyTransaction(t) ==
    [transactionDate |-> t.date,
     description |-> t.description,
     creditAmount |-> DecimalOrNull(t.credit_amount),
     debitAmount |-> DecimalOrNull(t.debit_amount)]

\* The record prisma.bankStatement.create writes, with its transactions.
LegacyCreated(st, statement) ==
    [id |-> Len(st.statements) + 1,
     bankName |-> statement.bank_name,
     accountNumber |-> statement.account_number,
     statementPeriodStart |-> statement.statement_period.start_date,
     statementPeriodEnd |-> statement.statement_period.end_date,
     startingBalance |-> ToCents(statement.starting_balance),
     endingBalance |-> ToCents(statement.ending_balance),
     transactions |-> [k \in 1..Len(statement.transactions) |->
                          LegacyTransaction(statement.transactions[k])]]

InitLegacy ==
    /\ store = EmptyStore
    /\ \E responses \in [Ingestions -> LegacyResponses] :
        pending = [c \in Ingestions |-> normalizeData(responses[c]).items]
    /\ persistLog = <<>>
    /\ faults = 0
    /\ requestPc = [c \in Ingestions |-> "findBank"]
    /\ requestSaved = [c \in Ingestions |-> <<>>]
    /\ requestResponse = [c \in Ingestions |-> "none"]
    /\ MergeIdle /\ CallIdle /\ PostIdle /\ ExtractIdle /\ ShapeIdle /\ ConvertIdle
    /\ PutIdle

LegacyLog(c, statement, action, id) ==
    [by |-> c, statement |-> statement, action |-> action,
     bankStatementId |-> id, wrote |-> action = "CREATED"]

\* A failure that the loop would absorb: the request goes on with the
\* statement.
LegacyFail_Absorbed(c) ==
    /\ requestPc' = [requestPc EXCEPT ![c] = "createStatement"]
    /\ UNCHANGED requestResponse

\* The catch blocks: the error is thrown again, the outer catch block builds
\* the error message and awaits saveDebugResponse.
LegacyFail(c) ==
    /\ requestPc' = [requestPc EXCEPT ![c] = "saveDebugResponse"]
    /\ UNCHANGED requestResponse

\* The head of the loop and await prisma.bank.findUnique.
LegacyFindBank(c) ==
    /\ requestPc[c] = "findBank"
    /\ requestPc' = [requestPc EXCEPT ![c] =
            IF pending[c] = <<>> THEN "counts"
            ELSE IF Head(pending[c]).bank_name \in store.banks THEN "createStatement"
            ELSE "createBank"]
    /\ UNCHANGED <<mergeVars, callVars, persistVars, postVars, extractVars,
                   putVars, shapeVars, convertVars, requestSaved, requestResponse>>

\* await prisma.bank.create: the name is unique, so the creation raises when
\* the bank has been created since it was looked up.
LegacyCreateBank(c, raises) ==
    /\ requestPc[c] = "createBank"
    /\ raises => faults < MaxFaults
    /\ LET name == Head(pending[c]).bank_name IN
        IF name \in store.banks \/ raises
        THEN /\ LegacyFail(c)
             /\ faults' = IF raises THEN faults + 1 ELSE faults
             /\ persistLog' = Append(persistLog,
                    LegacyLog(c, Head(pending[c]), "BANK_ERROR", 0))
             /\ UNCHANGED <<store, pending>>
        ELSE /\ store' = [store EXCEPT !.banks = @ \cup {name}]
             /\ requestPc' = [requestPc EXCEPT ![c] = "createStatement"]
             /\ UNCHANGED <<pending, persistLog, faults, requestResponse>>
    /\ UNCHANGED <<mergeVars, callVars, postVars, extractVars, putVars, shapeVars,
                   convertVars, requestSaved>>

\* The creation preceded by a look-up of the bank and account.
LegacyCreateStatement_Dedup(st, statement) ==
    IF FindStatements(st, statement.bank_name, statement.account_number) = {}
    THEN [st EXCEPT !.statements = Append(@, LegacyCreated(st, statement))]
    ELSE st

\* The store after prisma.bankStatement.create: the statement is created
\* without looking for an existing one.
LegacyCreateStatement(st, statement) ==
    [st EXCEPT !.statements = Append(@, LegacyCreated(st, statement))]

\* Building the data of prisma.bankStatement.create throws: a period date,
\* or the date of a transaction, is missing or no date.
LegacyDataThrows(statement) ==
    \/ ConvertToDateThrows(statement.statement_period.start_date)
    \/ ConvertToDateThrows(statement.statement_period.end_date)
    \/ \E k \in 1..Len(statement.transactions) :
            ConvertToDateThrows(statement.transactions[k].date)

\* await prisma.bankStatement.create({data: ...}): building the data can
\* throw, and the creation itself can raise.
LegacySaveStatement(c, raises) ==
    /\ requestPc[c] = "createStatement"
    /\ raises => faults < MaxFaults
    /\ LET statement == Head(pending[c]) IN
        IF LegacyDataThrows(statement) \/ raises
        THEN /\ LegacyFail(c)
             /\ faults' = IF raises THEN faults + 1 ELSE faults
             /\ persistLog' = Append(persistLog, LegacyLog(c, statement, "ERROR", 0))
             /\ UNCHANGED <<store, pending, requestSaved>>
        ELSE /\ store' = LegacyCreateStatement(store, statement)
             /\ persistLog' = Append(persistLog,
                    LegacyLog(c, statement, "CREATED", Len(store'.statements)))
             /\ requestSaved' = [requestSaved EXCEPT
                    ![c] = Append(@, Len(store'.statements))]
             /\ pending' = [pending EXCEPT ![c] = Tail(@)]
             /\ requestPc' = [requestPc EXCEPT ![c] = "findBank"]
             /\ UNCHANGED <<faults, requestResponse>>
    /\ UNCHANGED <<mergeVars, callVars, postVars, extractVars, putVars, shapeVars,
                   convertVars>>

\* await saveDebugResponse(...) settles, whether the debug file was written
\* or not (it catches its own errors), and the request is answered with
\* status 500.
LegacyRespondError(c) ==
    /\ requestPc[c] = "saveDebugResponse"
    /\ requestPc' = [requestPc EXCEPT ![c] = "responded"]
    /\ requestResponse' = [requestResponse EXCEPT ![c] = "500"]
    /\ UNCHANGED <<mergeVars, callVars, persistVars, postVars, extractVars,
                   putVars, shapeVars, convertVars, requestSaved>>

\* The transaction counts and the success response.
LegacyRespond(c) ==
    /\ requestPc[c] = "counts"
    /\ requestPc' = [requestPc EXCEPT ![c] = "responded"]
    /\ requestResponse' = [requestResponse EXCEPT ![c] = "200"]
    /\ UNCHANGED <<mergeVars, callVars, persistVars, postVars, extractVars,
                   putVars, shapeVars, convertVars, requestSaved>>

NextLegacy ==
    \E c \in Ingestions :
        \/ LegacyFindBank(c)
        \/ \E raises \in BOOLEAN : LegacyCreateBank(c, raises)
        \/ \E raises \in BOOLEAN : LegacySaveStatement(c, raises)
        \/ LegacyRespondError(c)
        \/ LegacyRespond(c)

SpecLegacy == InitLegacy /\ [][NextLegacy]_vars

(***************************************************************************)
(* The update-bank endpoint: PUT of one request.  A field of the body is a *)
(* JavaScript value: undefined (the key is absent), null, a number or a    *)
(* string, the text of which is a sequence of characters.  A message is a  *)
(* sequence of words.                                                      *)
(***************************************************************************)
UndefinedField == [type |-> "undefined", text |-> <<>>]
NullField == [type |-> "null", text |-> <<>>]
NumberField(text) == [type |-> "number", text |-> text]
StringField(text) == [type |-> "string", text |-> text]

\* !value
FalsyField(value) ==
    \/ value.type \in {"undefined", "null"}
    \/ value.type = "string" /\ value.text = <<>>
    \/ value.type = "number" /\ value.text = <<"0">>

\* The bank name check accepting every value.
BankNameMissing_Never(bankName) == FALSE
\* !bankName || typeof bankName !== 'string' || bankName.trim() === ''
BankNameMissing(bankName) ==
    \/ FalsyField(bankName)
    \/ bankName.type # "string"
    \/ TrimText(bankName.text) = <<>>

\* The value of a digit.
DigitValue(d) ==
    CASE d = "0" -> 0 [] d = "1" -> 1 [] d = "2" -> 2 [] d = "3" -> 3
      [] d = "4" -> 4 [] d = "5" -> 5 [] d = "6" -> 6 [] d = "7" -> 7
      [] d = "8" -> 8 [] d = "9" -> 9

\* The digits at the start of a text.
RECURSIVE LeadingDigits(_)
LeadingDigits(t) ==
    IF t # <<>> /\ Head(t) \in Digits THEN <<Head(t)>> \o LeadingDigits(Tail(t))
    ELSE <<>>

RECURSIVE DigitsValue(_)
DigitsValue(ds) ==
    IF ds = <<>> THEN 0
    ELSE DigitsValue(SubSeq(ds, 1, Len(ds) - 1)) * 10 + DigitValue(ds[Len(ds)])

\* parseInt(params.id): the number the leading digits spell, NaN without one.
ParseInt(t) ==
    IF LeadingDigits(t) = <<>> THEN "NaN" ELSE DigitsValue(LeadingDigits(t))

\* An error: its message, a text, which it may lack.
ErrorOf(message) == [hasMessage |-> TRUE, message |-> message]
ErrorWithoutMessage == [hasMessage |-> FALSE, message |-> <<>>]

\* message.includes(needle)
MessageIncludes(message, needle) ==
    \E k \in 0..(Len(message) - Len(needle)) :
        SubSeq(message, k + 1, k + Len(needle)) = needle

\* 'not found'
NotFoundText == <<"n", "o", "t", " ", "f", "o", "u", "n", "d">>

(***************************************************************************)
(* The rejection of request.json() for a body that is no JSON.  The body   *)
(* is a text of letters and blanks that does not begin with a whole JSON   *)
(* literal; JSON.parse stops at its first letter, or inside the literal    *)
(* that letter begins, and its message quotes the body around that place   *)
(* (the messages of V8 from version 10.5 on, Node.js 20 and 22).           *)
(***************************************************************************)
JsonLiterals ==
    {<<"n", "u", "l", "l">>, <<"t", "r", "u", "e">>, <<"f", "a", "l", "s", "e">>}

\* The index, from 0, of the character JSON.parse does not expect, and -1
\* when the text ends before one.
UnexpectedAt(text) ==
    LET rest == TrimStart(text)
        skipped == Len(text) - Len(rest)
        literals == {l \in JsonLiterals : rest # <<>> /\ l[1] = rest[1]}
        literal == CHOOSE l \in literals : TRUE
        differs == {k \in 1..Len(literal) : k > Len(rest) \/ rest[k] # literal[k]}
        first == CHOOSE k \in differs : \A j \in differs : k <= j
    IN CASE rest = <<>> -> -1
         [] rest # <<>> /\ literals = {} -> skipped
         [] rest # <<>> /\ literals # {} /\ differs # {} ->
                IF first > Len(rest) THEN -1 ELSE skipped + first - 1

\* The part of the body the message quotes, with its ellipses: the whole
\* body when it is short, else ten characters on each side of the place.
QuotedSource(text, pos) ==
    LET MaxContextCharacters == 10
        quote == <<"\"">>
        dots == <<".", ".", ".">>
    IN IF Len(text) < 2 * MaxContextCharacters + 1
       THEN quote \o text \o quote
       ELSE IF pos < MaxContextCharacters
       THEN quote \o SubSeq(text, 1, pos + MaxContextCharacters) \o quote \o dots
       ELSE IF pos < Len(text) - MaxContextCharacters
       THEN dots \o quote
            \o SubSeq(text, pos - MaxContextCharacters + 1, pos + MaxContextCharacters)
            \o quote \o dots
       ELSE dots \o quote
            \o SubSeq(text, pos - MaxContextCharacters + 1, Len(text)) \o quote

\* The message of the SyntaxError of JSON.parse.
JsonErrorMessage(text) ==
    LET pos == UnexpectedAt(text) IN
    IF pos = -1
    THEN <<"U", "n", "e", "x", "p", "e", "c", "t", "e", "d", " ", "e", "n",
           "d", " ", "o", "f", " ", "J", "S", "O", "N", " ", "i", "n", "p",
           "u", "t">>
    ELSE <<"U", "n", "e", "x", "p", "e", "c", "t", "e", "d", " ", "t", "o",
           "k", "e", "n", " ">>
         \o <<"'", text[pos + 1], "'", ",", " ">> \o QuotedSource(text, pos)
         \o <<" ", "i", "s", " ", "n", "o", "t", " ", "v", "a", "l", "i", "d",
              " ", "J", "S", "O", "N">>

\* The message of the TypeError of the destructuring of null.
DestructureMessage ==
    <<"C", "a", "n", "n", "o", "t", " ", "d", "e", "s", "t", "r", "u", "c",
      "t", "u", "r", "e", " ", "p", "r", "o", "p", "e", "r", "t", "y", " ",
      "'", "b", "a", "n", "k", "N", "a", "m", "e", "'", " ", "o", "f", " ",
      "'", "(", "i", "n", "t", "e", "r", "m", "e", "d", "i", "a", "t", "e",
      " ", "v", "a", "l", "u", "e", ")", "'", " ", "a", "s", " ", "i", "t",
      " ", "i", "s", " ", "n", "u", "l", "l", ".">>

JsonResponse(status, success, text) ==
    [status |-> status, success |-> success, text |-> text]

\* The catch block of PUT.
PutCatch(error) ==
    IF error.hasMessage /\ MessageIncludes(error.message, NotFoundText)
    THEN JsonResponse("404", FALSE, "Bank statement not found")
    ELSE JsonResponse("500", FALSE, "Failed to update bank affiliation")

\* The requests: params.id, and the body, which is an object with the two
\* fields, null, or no JSON at all.
PutIds == {<<"7">>, <<"1", "2">>, <<"x">>}

PutBankNames ==
    {UndefinedField, NullField, NumberField(<<"5">>), StringField(<<>>),
     StringField(<<" ", " ">>), StringField(<<"C", "I", "B">>),
     StringField(<<" ", "C", "I", "B", " ">>)}

PutUserIds ==
    {UndefinedField, NullField, StringField(<<>>), NumberField(<<"0">>),
     StringField(<<"u", "1">>)}

\* The bodies that are no JSON.
InvalidBodyTexts ==
    {<<>>,
     <<"n", "u", "l">>,
     <<"n", "o", "t", " ", "f", "o", "u", "n", "d">>,
     <<"N", "O", "T", " ", "F", "O", "U", "N", "D">>,
     <<"B", "a", "n", "k", " ", "s", "t", "a", "t", "e", "m", "e", "n", "t",
       " ", "n", "o", "t", " ", "f", "o", "u", "n", "d">>,
     <<"n", "o", "t", " ", "f", "o", "u", "n", "d", " ", "i", "n", " ", "t",
       "h", "e", " ", "b", "a", "n", "k", " ", "l", "i", "s", "t">>}

PutBodies ==
    {[kind |-> "object", bankName |-> b, supabaseUserId |-> u, text |-> <<>>] :
        b \in PutBankNames, u \in PutUserIds}
    \cup {[kind |-> "null", bankName |-> UndefinedField,
           supabaseUserId |-> UndefinedField, text |-> <<>>]}
    \cup {[kind |-> "invalid", bankName |-> UndefinedField,
           supabaseUserId |-> UndefinedField, text |-> t] :
            t \in InvalidBodyTexts}

\* What await updateStatementBankAffiliation(...) can do: return, or raise an
\* error.
UpdateOutcomes ==
    {[ok |-> TRUE, error |-> ErrorWithoutMessage],
     [ok |-> FALSE, error |-> ErrorOf(
        <<"B", "a", "n", "k", " ", "s", "t", "a", "t", "e", "m", "e", "n", "t",
          " ", "n", "o", "t", " ", "f", "o", "u", "n", "d">>)],
     [ok |-> FALSE, error |-> ErrorOf(
        <<"S", "t", "a", "t", "e", "m", "e", "n", "t", " ", "N", "o", "t", " ",
          "F", "o", "u", "n", "d">>)],
     [ok |-> FALSE, error |-> ErrorOf(
        <<"C", "a", "n", "'", "t", " ", "r", "e", "a", "c", "h", " ", "d", "a",
          "t", "a", "b", "a", "s", "e", " ", "s", "e", "r", "v", "e", "r">>)],
     [ok |-> FALSE, error |-> ErrorWithoutMessage]}

InitPut ==
    /\ \E id \in PutIds, body \in PutBodies : putRequest = [id |-> id, body |-> body]
    /\ putPc = "request"
    /\ putCalls = <<>>
    /\ putResponse = "none"
    /\ MergeIdle /\ CallIdle /\ PersistIdle /\ PostIdle /\ ExtractIdle
    /\ ShapeIdle /\ ConvertIdle /\ LegacyIdle

putFixed == <<mergeVars, callVars, persistVars, postVars, extractVars, shapeVars,
              convertVars, legacyVars, putRequest>>

\* PUT up to await request.json().
PutStart ==
    /\ putPc = "request"
    /\ putPc' = "json"
    /\ UNCHANGED <<putFixed, putCalls, putResponse>>

\* await request.json() settles: it rejects for a body that is no JSON, and
\* the destructuring of null throws; else the two checks, then the call of
\* updateStatementBankAffiliation.
PutBody ==
    /\ putPc = "json"
    /\ LET body == putRequest.body
           statementId == ParseInt(putRequest.id)
       IN IF body.kind = "invalid"
          THEN /\ putResponse' = PutCatch(ErrorOf(JsonErrorMessage(body.text)))
               /\ putPc' = "responded"
               /\ UNCHANGED putCalls
          ELSE IF body.kind = "null"
          THEN /\ putResponse' = PutCatch(ErrorOf(DestructureMessage))
               /\ putPc' = "responded"
               /\ UNCHANGED putCalls
          ELSE IF BankNameMissing(body.bankName)
          THEN /\ putResponse' = JsonResponse("400", FALSE, "Bank name is required")
               /\ putPc' = "responded"
               /\ UNCHANGED putCalls
          ELSE IF FalsyField(body.supabaseUserId)
          THEN /\ putResponse' = JsonResponse("401", FALSE, "User authentication required")
               /\ putPc' = "responded"
               /\ UNCHANGED putCalls
          ELSE /\ putCalls' = Append(putCalls,
                        [statementId |-> statementId,
                         bankName |-> TrimText(body.bankName.text),
                         supabaseUserId |-> body.supabaseUserId])
               /\ putPc' = "update"
               /\ UNCHANGED putResponse
    /\ UNCHANGED putFixed

\* await updateStatementBankAffiliation(...) settles.
PutUpdateSettled(outcome) ==
    /\ putPc = "update"
    /\ putResponse' =
            IF outcome.ok
            THEN JsonResponse("200", TRUE, "Bank affiliation updated")
            ELSE PutCatch(outcome.error)
    /\ putPc' = "responded"
    /\ UNCHANGED <<putFixed, putCalls>>

NextPut ==
    \/ PutStart
    \/ PutBody
    \/ \E outcome \in UpdateOutcomes : PutUpdateSettled(outcome)

SpecPut == InitPut /\ [][NextPut]_vars

(***************************************************************************)
(* Claims about the merger (checked under SpecMerge).                      *)
(***************************************************************************)
\* The place <<chunk number, statement, index>> a transaction came from.
Place(t) == t.description

PlaceBefore(a, b) ==
    \/ a[1] < b[1]
    \/ a[1] = b[1] /\ a[2] < b[2]
    \/ a[1] = b[1] /\ a[2] = b[2] /\ a[3] < b[3]

\* C1: in every statement mergeAccountStatements returns, the transactions
\* of a chunk with a lower sequence number precede those of a chunk with a
\* higher one, and the transactions of one chunk keep their original order.
C1_MergeOrder ==
    \A r \in 1..Len(returned) : \A n \in 1..Len(returned[r]) :
        LET ts == returned[r][n].transactions IN
        \A p, q \in 1..Len(ts) : p < q => PlaceBefore(Place(ts[p]), Place(ts[q]))

\* C1 witness: a merged statement holds transactions of two chunks, two of
\* them from one chunk, and the chunk results were handed over in descending
\* order.
C1_Witness ==
    /\ Len(returned) >= 1
    /\ Len(input) >= 2 /\ input[1].chunk_number > input[2].chunk_number
    /\ \E n \in 1..Len(returned[1]) :
        LET ts == returned[1][n].transactions IN
        /\ \E p, q \in 1..Len(ts) : Place(ts[p])[1] # Place(ts[q])[1]
        /\ \E p, q \in 1..Len(ts) :
            p # q /\ Place(ts[p])[1] = Place(ts[q])[1] /\ Place(ts[p])[2] = Place(ts[q])[2]

\* The second pass over the first j statements of the sorted input.
SecondPassPrefix(j) ==
    LET sorted == SortChunkResults(input)
        refs == StatementRefs(sorted, 1)
    IN SecondPass([acc |-> <<>>, chunks |-> sorted], SubSeq(refs, 1, j),
                  DocumentBankName(sorted, fileName))

Concrete(v) == v # "" /\ v # CONTINUATION
NotVisible(v) == v = "" \/ v = CONTINUATION

\* The scalar fields of the n-th merged statement of a second-pass state.
ScalarFields(st, n) ==
    LET sp == StatementAt(st.chunks, st.acc[n].periodRef).statement_period IN
    [bank_name |-> st.acc[n].bank_name,
     account_type |-> st.acc[n].account_type,
     account_currency |-> st.acc[n].account_currency,
     starting_balance |-> st.acc[n].starting_balance,
     ending_balance |-> st.acc[n].ending_balance,
     start_date |-> sp.start_date,
     end_date |-> sp.end_date]

\* The scalar fields of an extracted statement.
ExtractedFields(statement) ==
    [bank_name |-> statement.bank_name,
     account_type |-> statement.account_type,
     account_currency |-> statement.account_currency,
     starting_balance |-> statement.starting_balance,
     ending_balance |-> statement.ending_balance,
     start_date |-> statement.statement_period.start_date,
     end_date |-> statement.statement_period.end_date]

ScalarFieldNames ==
    {"bank_name", "account_type", "account_currency", "starting_balance",
     "ending_balance", "start_date", "end_date"}

\* C2: when a later chunk's statement for an account already merged holds
\* CONTINUATION or the empty string in a scalar field, merging it leaves the
\* concrete value the merged statement holds in that field unchanged.
C2_FieldOverwriteRule ==
    Len(returned) >= 1 =>
    LET sorted == SortChunkResults(input)
        refs == StatementRefs(sorted, 1)
    IN \A j \in 1..Len(refs) :
        LET before == SecondPassPrefix(j - 1)
            after == SecondPassPrefix(j)
            statement == StatementAt(sorted, refs[j])
            n == IndexOfKey(before.acc, Trim(statement.account_number))
        IN (~InvalidAccountNumber(statement.account_number) /\ n # 0) =>
            \A f \in ScalarFieldNames :
                (NotVisible(ExtractedFields(statement)[f])
                 /\ Concrete(ScalarFields(before, n)[f]))
                => ScalarFields(after, n)[f] = ScalarFields(before, n)[f]

\* C10: the second call of mergeAccountStatements on the same objects returns
\* the statements the first call returned.
C10_MergeIdempotent ==
    Len(returned) = 2 => returned[2] = returned[1]

\* The orders of n chunk results, and a chunk list taken in one of them.
Orders(n) == {p \in [1..n -> 1..n] : \A i, j \in 1..n : i # j => p[i] # p[j]}

Permuted(crs, p) == [k \in 1..Len(crs) |-> crs[p[k]]]

\* C11: whatever the order in which the chunk results of a document are
\* handed to mergeAccountStatements, it returns the statements (scalar fields
\* and transaction order included) that the first call returned.
C11_OrderIndependent ==
    [][Len(returned) = 0 =>
        \A p \in Orders(Len(input)) :
            mergeAccountStatements(Permuted(input, p), fileName).account_statements
                = returned'[1]]_vars

\* C11 witness: the chunk results were handed in descending order and a
\* merged statement holds transactions of two chunks.
C11_Witness ==
    /\ Len(returned) >= 1
    /\ Len(input) >= 2
    /\ input[1].chunk_number > input[2].chunk_number
    /\ \E n \in 1..Len(returned[1]) :
        \E a, b \in 1..Len(returned[1][n].transactions) :
            Place(returned[1][n].transactions[a])[1]
                # Place(returned[1][n].transactions[b])[1]

\* The places of the statements of account number key in the sorted input,
\* in document order.
RefsOfAccount(key) ==
    LET sorted == SortChunkResults(input) IN
    SelectSeq(StatementRefs(sorted, 1),
              LAMBDA ref :
                  LET a == StatementAt(sorted, ref).account_number IN
                  ~InvalidAccountNumber(a) /\ Trim(a) = key)

RECURSIVE TransactionsOf(_, _)
TransactionsOf(crs, refs) ==
    IF refs = <<>> THEN <<>>
    ELSE StatementAt(crs, Head(refs)).transactions \o TransactionsOf(crs, Tail(refs))

\* The account is carried by several chunks in sequence, with its own bank
\* name in the first and CONTINUATION as bank name in the later ones.
ContinuedAccount(refs) ==
    LET sorted == SortChunkResults(input) IN
    /\ Len(refs) >= 2
    /\ \A k \in 1..(Len(refs) - 1) : refs[k][1] < refs[k + 1][1]
    /\ IsUsableBankName(StatementAt(sorted, refs[1]).bank_name)
    /\ \A k \in 2..Len(refs) : StatementAt(sorted, refs[k]).bank_name = CONTINUATION

\* C12: the merged statement of an account carried by several chunks, whose
\* later chunks give CONTINUATION as bank name, holds the transactions of all
\* those chunks in chunk order and the bank name of the first chunk.
C12_ContinuationMerge ==
    Len(returned) >= 1 =>
        \A n \in 1..Len(returned[1]) :
            LET sorted == SortChunkResults(input)
                refs == RefsOfAccount(Trim(returned[1][n].account_number))
            IN ContinuedAccount(refs) =>
                /\ returned[1][n].transactions = TransactionsOf(sorted, refs)
                /\ returned[1][n].bank_name =
                        EffectiveBankName(StatementAt(sorted, refs[1]), "")

\* The account numbers (trimmed) of the statements of the input that have one.
AccountKeys ==
    {Trim(input[c].account_statements[k].account_number) :
        <<c, k>> \in {r \in (1..Len(input)) \X (1..MaxStatements) :
            /\ r[2] <= Len(input[r[1]].account_statements)
            /\ ~InvalidAccountNumber(input[r[1]].account_statements[r[2]].account_number)}}

\* C13: mergeAccountStatements returns exactly one statement per account
\* number of its input, whatever the bank names, and a merged statement holds
\* the transactions of the statements of its account number and no others.
C13_OnePerAccount ==
    Len(returned) >= 1 =>
        /\ \A n, m \in 1..Len(returned[1]) :
            n # m => Trim(returned[1][n].account_number)
                        # Trim(returned[1][m].account_number)
        /\ {Trim(returned[1][n].account_number) : n \in 1..Len(returned[1])}
                = AccountKeys
        /\ \A n \in 1..Len(returned[1]) :
            returned[1][n].transactions =
                TransactionsOf(SortChunkResults(input),
                               RefsOfAccount(Trim(returned[1][n].account_number)))

\* C13 witness: two accounts, one of them extracted twice with different
\* bank names, merged into two statements.
C13_Witness ==
    /\ Len(returned) >= 1
    /\ Len(returned[1]) = 2
    /\ \E key \in AccountKeys :
        LET refs == RefsOfAccount(key)
            sorted == SortChunkResults(input)
        IN /\ Len(refs) = 2
           /\ IsUsableBankName(StatementAt(sorted, refs[1]).bank_name)
           /\ StatementAt(sorted, refs[1]).bank_name
                # StatementAt(sorted, refs[2]).bank_name

\* The places of the transactions of the statements of the input that have
\* no account number.
DroppedPlaces ==
    UNION {{Place(input[r[1]].account_statements[r[2]].transactions[k]) :
                k \in 1..Len(input[r[1]].account_statements[r[2]].transactions)} :
        r \in {r \in (1..Len(input)) \X (1..MaxStatements) :
            /\ r[2] <= Len(input[r[1]].account_statements)
            /\ InvalidAccountNumber(input[r[1]].account_statements[r[2]].account_number)}}

\* C14: no merged statement has an account number that is empty, blank or
\* CONTINUATION, and no transaction of an extracted statement with such an
\* account number is in a merged statement.
C14_NoAccountDropped ==
    Len(returned) >= 1 =>
        \A n \in 1..Len(returned[1]) :
            /\ returned[1][n].account_number \notin {"", "  ", CONTINUATION}
            /\ \A k \in 1..Len(returned[1][n].transactions) :
                Place(returned[1][n].transactions[k]) \notin DroppedPlaces

\* C14 witness: a statement with a blank account number was dropped and
\* another statement of the document was merged.
C14_Witness ==
    /\ Len(returned) >= 1
    /\ Len(returned[1]) >= 1
    /\ \E c \in 1..Len(input) : \E k \in 1..Len(input[c].account_statements) :
        input[c].account_statements[k].account_number = "  "
    /\ DroppedPlaces # {}

\* The bank name is one the merger does not take as a name.
NoBankName(b) == b = "" \/ b = CONTINUATION \/ Trim(b) = "" \/ LowerIsUnknown(b)

\* The fallback bank name of the document, as the claim states it.
ExpectedFallback ==
    LET sorted == SortChunkResults(input)
        refs == StatementRefs(sorted, 1)
        named == {k \in 1..Len(refs) : ~NoBankName(StatementAt(sorted, refs[k]).bank_name)}
        first == CHOOSE k \in named : \A j \in named : k <= j
        name == StatementAt(sorted, refs[first]).bank_name
    IN IF named # {}
       THEN (IF findEgyptianBankDisplayName(name) # ""
             THEN findEgyptianBankDisplayName(name) ELSE name)
       ELSE IF fileName # "" THEN fileName
       ELSE "Unknown Bank"

\* No statement of the account shows a bank name.
Nameless(key) ==
    LET sorted == SortChunkResults(input)
        refs == RefsOfAccount(key)
    IN \A k \in 1..Len(refs) : NoBankName(StatementAt(sorted, refs[k]).bank_name)

\* C26: the document fallback bank name is the first bank name, in chunk
\* order, that is not empty, CONTINUATION or "unknown", alias-normalised; with
\* no such name it is the file name, and with no file name "Unknown Bank".
\* The merged statement of an account that shows no bank name carries it.
C26_FallbackBankName ==
    Len(returned) >= 1 =>
        /\ DocumentBankName(SortChunkResults(input), fileName) = ExpectedFallback
        /\ \A n \in 1..Len(returned[1]) :
              Nameless(Trim(returned[1][n].account_number)) =>
                  returned[1][n].bank_name = ExpectedFallback

\* C26 witness: the first statement of the document shows no bank name, a
\* later one shows an alias, and the merged statement of an account with no
\* bank name carries the canonical name of that alias.
C26_Witness ==
    /\ Len(returned) >= 1
    /\ LET sorted == SortChunkResults(input)
           refs == StatementRefs(sorted, 1)
       IN /\ Len(refs) >= 2
          /\ NoBankName(StatementAt(sorted, refs[1]).bank_name)
          /\ \E k \in 2..Len(refs) : StatementAt(sorted, refs[k]).bank_name = "cib"
    /\ \E n \in 1..Len(returned[1]) :
          /\ Nameless(Trim(returned[1][n].account_number))
          /\ returned[1][n].bank_name = "Commercial International Bank (CIB)"

\* C27: every statement mergeAccountStatements returns has a bank name that
\* is not empty and not CONTINUATION.
C27_BankNameNeverContinuation ==
    Len(returned) >= 1 =>
        \A n \in 1..Len(returned[1]) :
            /\ returned[1][n].bank_name # ""
            /\ returned[1][n].bank_name # CONTINUATION

\* The statement periods of the merged statements of the first call, before
\* the longest-range fallback is applied.
MergedPeriods ==
    LET sortedChunkResults == SortChunkResults(input)
        st == SecondPass([acc |-> <<>>, chunks |-> sortedChunkResults],
                         StatementRefs(sortedChunkResults, 1),
                         DocumentBankName(sortedChunkResults, fileName))
    IN [n \in 1..Len(st.acc) |->
            StatementAt(st.chunks, st.acc[n].periodRef).statement_period]

\* A period with a start date and an end date.
HasBothDates(sp) == ~IsNaNDate(sp.start_date) /\ ~IsNaNDate(sp.end_date)

MissingDate(sp) == sp.start_date = "" \/ sp.end_date = ""

Duration(sp) == DateTime(sp.end_date) - DateTime(sp.start_date)

\* C28: when at least one merged statement has both dates, every merged
\* statement that missed its period start or its period end is returned with
\* the period of a merged statement whose range, end minus start, is the
\* longest of the document.
C28_LongestRangeFallback ==
    Len(returned) >= 1 =>
        LET p == MergedPeriods IN
        (\E m \in 1..Len(p) : HasBothDates(p[m])) =>
            \A n \in 1..Len(p) :
                MissingDate(p[n]) =>
                    \E m \in 1..Len(p) :
                        /\ HasBothDates(p[m])
                        /\ \A k \in 1..Len(p) :
                            HasBothDates(p[k]) => Duration(p[k]) <= Duration(p[m])
                        /\ returned[1][n].statement_period = p[m]

\* The bank names an account shows for itself: the usable names of its
\* statements, alias-normalised.
OwnBankNames(key) ==
    LET sorted == SortChunkResults(input)
        refs == RefsOfAccount(key)
    IN {EffectiveBankName(StatementAt(sorted, refs[k]), "") :
            k \in {j \in 1..Len(refs) :
                     IsUsableBankName(StatementAt(sorted, refs[j]).bank_name)}}

\* C29: an account that shows a bank name of its own is returned with a bank
\* name of its own, whatever the other accounts of the document show and
\* whether or not a later chunk lists it with CONTINUATION, an empty or an
\* unknown bank name; the document fallback name is used only for an account
\* with no usable bank name.
C29_BankNameIsolation ==
    Len(returned) >= 1 =>
        \A n \in 1..Len(returned[1]) :
            LET own == OwnBankNames(Trim(returned[1][n].account_number)) IN
            own # {} => returned[1][n].bank_name \in own

\* The literal zero placeholders of a balance.
ZeroPlaceholder(v) == v \in {"0", "0.00"}

\* A balance that is an amount other than the placeholder.
NonZeroAmount(v) == v \notin {"", "0", "0.00", CONTINUATION}

BalanceFieldNames == {"starting_balance", "ending_balance"}

\* What the second pass did to the balances: for each statement merged into
\* an account already in the map and each balance field, the balance of the
\* later statement and the merged balance before and after the step.
BalanceSteps ==
    LET sorted == SortChunkResults(input)
        refs == StatementRefs(sorted, 1)
        prefix == [j \in 0..Len(refs) |-> SecondPassPrefix(j)]
        merging == {j \in 1..Len(refs) :
                      LET a == StatementAt(sorted, refs[j]).account_number IN
                      /\ ~InvalidAccountNumber(a)
                      /\ IndexOfKey(prefix[j - 1].acc, Trim(a)) # 0}
    IN {[field |-> f,
         later |-> ExtractedFields(StatementAt(sorted, refs[j]))[f],
         before |-> ScalarFields(prefix[j - 1],
                        IndexOfKey(prefix[j - 1].acc,
                            Trim(StatementAt(sorted, refs[j]).account_number)))[f],
         after |-> ScalarFields(prefix[j],
                        IndexOfKey(prefix[j - 1].acc,
                            Trim(StatementAt(sorted, refs[j]).account_number)))[f]] :
            <<j, f>> \in merging \X BalanceFieldNames}

\* C30, as stated: a later zero placeholder never replaces the merged
\* balance, and a later non-zero balance replaces the merged one only when the
\* merged one was a placeholder.
C30_BalanceMergeRule ==
    Len(returned) = 1 =>
        \A step \in BalanceSteps :
            /\ ZeroPlaceholder(step.later) => step.after = step.before
            /\ (NonZeroAmount(step.later) /\ step.after # step.before)
                    => ZeroPlaceholder(step.before)

\* A later balance that is neither empty nor a zero placeholder: an amount
\* other than the placeholder, or a text such as CONTINUATION.
OtherBalance(v) == v \notin {"", "0", "0.00"}

\* C30, amended: a later zero placeholder never replaces the merged balance,
\* and a later balance that is neither empty nor a zero placeholder always
\* replaces it, whether the merged balance was a placeholder or not.
C30_LaterNonZeroWins ==
    [][Len(returned) = 0 =>
        \A step \in BalanceSteps :
            /\ ZeroPlaceholder(step.later) => step.after = step.before
            /\ OtherBalance(step.later) => step.after = step.later]_vars

\* C30 witness: a later placeholder was merged into an account whose balance
\* stayed, and a later non-zero balance replaced a merged non-zero balance.
C30_Witness ==
    /\ Len(returned) = 1
    /\ \E step \in BalanceSteps :
        step.later = "0" /\ step.before = "100" /\ step.after = "100"
    /\ \E step \in BalanceSteps :
        step.later = "500" /\ step.before = "100" /\ step.after = "500"

(***************************************************************************)
(* Claims about callGeminiAPI (checked under SpecCall).                    *)
(***************************************************************************)
ModelPosition(m) == CHOOSE i \in 1..Len(Models) : Models[i] = m

\* A call that returned a text that is not blank.
Succeeded(c) == c.outcome.kind = "text" /\ ~IsEmptyResponse(c.outcome.text)

\* The calls made on model m among the first n calls.
CallsOn(m, n) == SelectSeq(SubSeq(calls, 1, n), LAMBDA c : c.model = m)

\* Model m has failed within the first n calls: every attempt allowed raised,
\* or a call returned an empty text.
HasFailed(m, n) ==
    LET cs == CallsOn(m, n) IN
    /\ cs # <<>>
    /\ \A k \in 1..Len(cs) : ~Succeeded(cs[k])
    /\ \/ Len(cs) = 3 /\ \A k \in 1..3 : cs[k].outcome.kind = "raise"
       \/ cs[Len(cs)].outcome.kind = "text"

\* C9: the models are called in the order primary, fallback; no model is
\* called more than 3 times; the fallback is called only once the primary has
\* failed; a successful call is the last call; callGeminiAPI throws only when
\* every model has failed.
C9_ModelCallOrder ==
    /\ \A p, q \in 1..Len(calls) :
        p < q => ModelPosition(calls[p].model) <= ModelPosition(calls[q].model)
    /\ \A m \in {MODEL_NAME, FALLBACK_MODEL} : Len(CallsOn(m, Len(calls))) <= 3
    /\ \A q \in 1..Len(calls) :
        calls[q].model = FALLBACK_MODEL => HasFailed(MODEL_NAME, q - 1)
    /\ \A q \in 1..Len(calls) :
        Succeeded(calls[q]) => q = Len(calls) /\ callState = "returned"
    /\ callState = "returned" => Succeeded(calls[Len(calls)])
    /\ callState = "thrown" =>
        \A m \in {MODEL_NAME, FALLBACK_MODEL} : HasFailed(m, Len(calls))

\* C9 witness: the primary raised three times and the fallback answered on
\* its second attempt.
C9_Witness ==
    /\ callState = "returned"
    /\ Len(calls) = 5
    /\ calls[3].model = MODEL_NAME /\ calls[5].model = FALLBACK_MODEL

\* The waits the first n calls were followed by, as the schedule gives them:
\* 1000 ms after a first attempt that raised, 2000 ms after a second, none
\* after a third and none after a call that returned.
RECURSIVE ScheduledDelays(_)
ScheduledDelays(n) ==
    IF n = 0 THEN <<>>
    ELSE LET c == calls[n] IN
         ScheduledDelays(n - 1) \o
            (IF c.outcome.kind = "raise" /\ c.attempt = 0 THEN <<1000>>
             ELSE IF c.outcome.kind = "raise" /\ c.attempt = 1 THEN <<2000>>
             ELSE <<>>)

\* C33: with the defaults, retryWithBackoff waits 1000 ms before the second
\* attempt on a model and 2000 ms before the third, does not wait after the
\* third failed attempt, and raises the error of the last attempt.
C33_BackoffSchedule ==
    /\ delays = ScheduledDelays(Len(calls))
    /\ \A q \in 1..Len(calls) : calls[q].attempt \in 0..2
    /\ (calls # <<>> /\ calls[Len(calls)].outcome.kind = "raise") =>
            lastError = calls[Len(calls)].outcome.error
    /\ (calls # <<>> /\ calls[Len(calls)].outcome.kind = "raise"
        /\ calls[Len(calls)].attempt = 2) => callState # "backoff"

\* C33 witness: both models raised three times, with waits of 1000 and 2000 ms
\* on each, and the error thrown is the one of the sixth call, which differs
\* from the fifth.
C33_Witness ==
    /\ callState = "thrown"
    /\ Len(calls) = 6
    /\ delays = <<1000, 2000, 1000, 2000>>
    /\ calls[5].outcome.error = "429"
    /\ calls[6].outcome.error = "500"
    /\ lastError = "500"

\* A call that returned the empty text or a text of blanks.
ReturnedNothing(c) == c.outcome.kind = "text" /\ c.outcome.text \in {"", "  "}

\* C38: a call that returns an empty or blank text is the last call on its
\* model, with no wait after it: the next call, if any, is the first attempt
\* on the next model, and after the last model callGeminiAPI throws; a call
\* that raises on its first or second attempt is followed by a wait and by the
\* next attempt on the same model.
C38_EmptyResponseNotRetried ==
    \A q \in 1..Len(calls) :
        LET c == calls[q] IN
        /\ ReturnedNothing(c) =>
            /\ delays = ScheduledDelays(Len(calls))
            /\ q < Len(calls) =>
                /\ ModelPosition(calls[q + 1].model) = ModelPosition(c.model) + 1
                /\ calls[q + 1].attempt = 0
            /\ q = Len(calls) =>
                IF c.model = FALLBACK_MODEL
                THEN callState = "thrown" /\ lastError = "GenAI returned empty response"
                ELSE callState = "calling" /\ attempt = 0
                     /\ Models[modelIndex] = FALLBACK_MODEL
        /\ (c.outcome.kind = "raise" /\ c.attempt < 2) =>
            /\ q < Len(calls) =>
                calls[q + 1].model = c.model /\ calls[q + 1].attempt = c.attempt + 1
            /\ q = Len(calls) => callState \in {"backoff", "calling"}

\* C38 witness: the primary answered with an empty text on its first call,
\* the fallback raised twice and then answered with a blank text.
C38_Witness ==
    /\ callState = "thrown"
    /\ Len(calls) = 4
    /\ calls[1].model = MODEL_NAME /\ calls[1].outcome.kind = "text"
    /\ calls[2].outcome.kind = "raise" /\ calls[3].outcome.kind = "raise"
    /\ calls[4].outcome.kind = "text" /\ calls[4].outcome.text = "  "

(***************************************************************************)
(* Claims about the Persister (checked under SpecPersist).                 *)
(***************************************************************************)
SameAccount(a, b) ==
    a.statement.bank_name = b.statement.bank_name
    /\ a.statement.account_number = b.statement.account_number

Returned(e) == e.action # "ERROR"

\* The statement of the p-th Persister call is new: no earlier call for its
\* bank and account returned.
NewAt(p) ==
    \A e \in 1..(p - 1) :
        ~(Returned(persistLog[e]) /\ SameAccount(persistLog[e], persistLog[p]))

\* C3: when two concurrent ingestions submit the same new statement and both
\* calls return, the first to be decided is CREATE_NEW and the other is
\* SKIP_DUPLICATE or ADD_TO_EXISTING_BANK; no two calls for one bank and
\* account are both CREATE_NEW.
C3_OneCreateNew ==
    \A p, q \in 1..Len(persistLog) :
        LET a == persistLog[p]
            b == persistLog[q]
        IN (p < q /\ Returned(a) /\ Returned(b) /\ SameAccount(a, b)) =>
            /\ ~(a.action = "CREATE_NEW" /\ b.action = "CREATE_NEW")
            /\ (a.by # b.by /\ a.statement = b.statement /\ NewAt(p)) =>
                /\ a.action = "CREATE_NEW"
                /\ b.action \in {"SKIP_DUPLICATE", "ADD_TO_EXISTING_BANK"}

\* C3 witness: both ingestions submitted the same new statement, ingestion 2
\* was decided first, and both calls returned.
C3_Witness ==
    /\ Len(persistLog) >= 2
    /\ persistLog[1].by = 2 /\ persistLog[2].by = 1
    /\ persistLog[1].statement = persistLog[2].statement
    /\ Returned(persistLog[1]) /\ Returned(persistLog[2])

\* C4: when the same statement is submitted twice, one call after the other,
\* and it was new the first time, the first call is CREATE_NEW and the second
\* is SKIP_DUPLICATE for the same stored statement and writes nothing.
C4_PersisterIdempotent ==
    \A p \in 1..(Len(persistLog) - 1) :
        LET a == persistLog[p]
            b == persistLog[p + 1]
        IN (Returned(a) /\ Returned(b) /\ a.statement = b.statement /\ NewAt(p)) =>
            /\ a.action = "CREATE_NEW" /\ a.wrote
            /\ b.action = "SKIP_DUPLICATE" /\ ~b.wrote
            /\ b.bankStatementId = a.bankStatementId

\* C4 witness: the same statement, with two transactions, was submitted twice
\* in sequence; it was created and then skipped.
C4_Witness ==
    /\ Len(persistLog) = 2
    /\ persistLog[1].statement = persistLog[2].statement
    /\ persistLog[1].action = "CREATE_NEW"
    /\ persistLog[2].action = "SKIP_DUPLICATE"
    /\ Len(store.statements[persistLog[1].bankStatementId].transactions) = 2

(***************************************************************************)
(* Claims about the streaming POST handler (checked under SpecPost).       *)
(***************************************************************************)
Terminal(e) == e.type \in {"complete", "error"}

\* start() has returned or rejected.
Ended == pc \in {"done", "rejected"}

HasEvent(type, n) ==
    \E k \in 1..Len(events) : events[k].type = type /\ events[k].n = n

\* C5: a terminal event (complete or error) is the last event of the stream;
\* once start() has ended, the stream holds exactly one terminal event and
\* controller.close() has returned exactly once.
C5_TerminatesOnce ==
    /\ \A k \in 1..Len(events) : Terminal(events[k]) => k = Len(events)
    /\ closes <= 1
    /\ Ended =>
        /\ events # <<>>
        /\ Terminal(events[Len(events)])
        /\ closes = 1

\* C6: when at least one account statement survived the merge, the stream
\* holds no error event, and a stream that was closed ends with complete.
C6_ErrorsAbsorbed ==
    Len(structuredData) >= 1 =>
        /\ \A k \in 1..Len(events) : events[k].type # "error"
        /\ pc = "done" => events[Len(events)].type = "complete"

\* The positions of chunkResults that hold the result of chunk number n.
ResultsFor(n) == {k \in 1..Len(chunkResults) : chunkResults[k].chunk_number = n}

\* The handler has left the chunk loop by its end.
LeftChunkLoop ==
    pc \in {"merge", "statement_start", "persist", "validation_start", "findUnique",
            "update", "counts", "classification_start", "import", "done"}

\* C7: once the handler is past a chunk whose processChunk raised, chunkResults
\* holds exactly one result with that chunk's number, with no statements, and
\* the next chunk has been started; after the chunk loop chunkResults holds
\* exactly one result per chunk.
C7_FailedChunkRecorded ==
    /\ \A k \in 1..Len(chunks) :
        (chunks[k].chunkNumber \in failedChunks /\ (chunkIdx > k \/ Ended)) =>
            /\ Cardinality(ResultsFor(chunks[k].chunkNumber)) = 1
            /\ \A r \in ResultsFor(chunks[k].chunkNumber) :
                    chunkResults[r].account_statements = <<>>
            /\ (Ended /\ k < Len(chunks)) =>
                    HasEvent("chunk_start", chunks[k + 1].chunkNumber)
    /\ LeftChunkLoop =>
        \A k \in 1..Len(chunks) : Cardinality(ResultsFor(chunks[k].chunkNumber)) = 1

\* The Persister calls made for the i-th merged statement.
CallsFor(i) ==
    {e \in 1..Len(persistLog) :
        persistLog[e].statement.account_number = structuredData[i].account_number}

\* C8: once the handler is past a merged statement whose Persister call
\* raised, the stream holds a statement_error event for it, and when start()
\* has ended every later statement of the request was submitted to the
\* Persister.
C8_PersistenceErrorIsolated ==
    \A i \in 1..Len(structuredData) :
        ((\E e \in CallsFor(i) : persistLog[e].action = "ERROR")
         /\ (stmtIdx > i \/ Ended)) =>
            /\ HasEvent("statement_error", i)
            /\ Ended => \A j \in (i + 1)..Len(structuredData) : CallsFor(j) # {}

(***************************************************************************)
(* Claims about the chunk loop of POST (checked under SpecPost).           *)
(***************************************************************************)
\* The positions in the stream of the events of a type about chunk number n.
ChunkEvents(types, n) ==
    {p \in 1..Len(events) : events[p].type \in types /\ events[p].n = n}

\* The extraction of a chunk starts only after the extraction of the chunk
\* before it has ended, so at most one extraction is in flight.
ExtractionsInSequence ==
    /\ \A k \in 2..Len(chunks) :
        \A p \in ChunkEvents({"chunk_start"}, chunks[k].chunkNumber) :
            \E q \in ChunkEvents({"chunk_complete", "chunk_error"},
                                 chunks[k - 1].chunkNumber) : q < p
    /\ Cardinality({p \in 1..Len(events) : events[p].type = "chunk_start"})
         - Cardinality({p \in 1..Len(events) :
                            events[p].type \in {"chunk_complete", "chunk_error"}})
            \in {0, 1}

\* The handler comes to the head of the loop for a second or later chunk only
\* from the delay.
DelayBeforeNextChunk ==
    (pc' = "chunk_start" /\ pc # "chunk_start" /\ chunkIdx' \in 2..Len(chunks))
        => pc = "delay"

\* C34: the chunks are extracted one after the other, never two at a time,
\* and the artificial delay lies between every two consecutive extractions of
\* a document of several chunks.
C34_SequentialWithDelay ==
    [](ExtractionsInSequence) /\ [][DelayBeforeNextChunk]_vars

(***************************************************************************)
(* Claims about splitIntoChunks, as POST calls it (checked under SpecPost).*)
(***************************************************************************)
\* POST has called splitIntoChunks(statementText).
SplitDone == response = "stream"

Markers == Len(statementText.segs)

\* The markers that are followed by text that is not blank.
TextMarkers == {m \in 1..Markers : Trim(statementText.segs[m].content) # ""}

Ascending(cs) == \A k \in 1..(Len(cs) - 1) : cs[k].chunkNumber < cs[k + 1].chunkNumber

\* C15 as stated: for a text with N >= 1 page markers splitIntoChunks returns
\* exactly N chunks, in ascending chunk number.
C15_ChunkPerMarker ==
    (SplitDone /\ Markers >= 1) => (Len(chunks) = Markers /\ Ascending(chunks))

\* C15 amended: for a text with N >= 1 page markers splitIntoChunks returns
\* exactly one chunk per marker that is followed by non-blank text, numbered
\* by the position of its marker, with the marker's page range and the
\* trimmed text, in ascending chunk number (N chunks when no page is blank).
C15_ChunkPerTextMarker ==
    (SplitDone /\ Markers >= 1) =>
        /\ Len(chunks) = Cardinality(TextMarkers)
        /\ Ascending(chunks)
        /\ \A k \in 1..Len(chunks) :
            /\ chunks[k].chunkNumber \in TextMarkers
            /\ chunks[k].pages = statementText.segs[chunks[k].chunkNumber].pages
            /\ chunks[k].content = Trim(statementText.segs[chunks[k].chunkNumber].content)
        /\ (\A m \in 1..Markers : m \in TextMarkers) => Len(chunks) = Markers

\* C15 witness: of two markers the first is followed by blank text; the one
\* chunk returned has number 2.
C15_Witness ==
    /\ SplitDone /\ Markers = 2
    /\ Len(chunks) = 1 /\ chunks[1].chunkNumber = 2

\* C16: for a text with no page marker splitIntoChunks returns exactly one
\* chunk, numbered 1, with the page label "1-N" and the whole text, untrimmed,
\* as content.
C16_SingleChunkFallback ==
    (SplitDone /\ Markers = 0) =>
        chunks = <<[content |-> statementText.pre, pages |-> "1-N", chunkNumber |-> 1]>>

\* C16 witness: a text of blanks with no marker was split into one chunk.
C16_Witness ==
    /\ SplitDone /\ Markers = 0
    /\ statementText.pre = "  "
    /\ Len(chunks) = 1

\* C17 as stated: the chunk sequence splitIntoChunks returns is never empty.
C17_NeverEmpty == SplitDone => Len(chunks) >= 1

\* C17 amended: splitIntoChunks returns a chunk sequence for every text; the
\* sequence is empty exactly when the text has page markers and every marker
\* is followed by blank text, and a text with no marker gives the single
\* whole-text chunk.
C17_EmptyOnlyWhenAllBlank ==
    SplitDone =>
        /\ Len(chunks) = 0 <=> (Markers >= 1 /\ TextMarkers = {})
        /\ Markers = 0 => (Len(chunks) = 1 /\ chunks[1].content = statementText.pre)

\* C17 witness: a text with two markers, each followed by blank text, was
\* split into no chunk.
C17_Witness ==
    /\ SplitDone /\ Markers = 2 /\ TextMarkers = {}
    /\ chunks = <<>>

(***************************************************************************)
(* Claims about the fatal errors and the input errors of POST (checked     *)
(* under SpecPost).                                                        *)
(***************************************************************************)
\* mergeAccountStatements has been called and has returned.
MergeDone ==
    /\ pc # "merge"
    /\ \E k \in 1..Len(events) : events[k].info = "Merging results from all chunks"

\* No call to the Persister, no validation and no classification was made.
NothingPersisted ==
    /\ persistLog = <<>> /\ store \in InitialStores
    /\ processingResults = <<>> /\ savedStatementIds = <<>>
    /\ classifying = {} /\ classificationResults = <<>>
    /\ \A k \in 1..Len(events) :
        events[k].type \notin {"statement_start", "validation_start",
                               "classification_start"}

\* C18: when splitIntoChunks returned no chunk, or mergeAccountStatements
\* returned no statement, the stream ends with its only error event, it is
\* closed, and no call to the Persister, the validator or the classifier was
\* made.
C18_FatalErrors ==
    ((SplitDone /\ Len(chunks) = 0) \/ (MergeDone /\ Len(structuredData) = 0)) =>
        /\ pc = "done"
        /\ events[Len(events)].type = "error"
        /\ \A k \in 1..(Len(events) - 1) : ~Terminal(events[k])
        /\ streamState = "closed" /\ closes = 1
        /\ NothingPersisted

\* C18 witness: every chunk was extracted, one of them with an error, no
\* statement survived the merge and the stream was closed after the error
\* event.
C18_Witness ==
    /\ MergeDone /\ Len(structuredData) = 0
    /\ failedChunks # {}
    /\ Len(chunkResults) = Len(chunks)
    /\ closes = 1

\* C19: once POST has handled a request with no statement text or no user
\* identity, it has returned 400 (no text) or 401 (no identity), no stream
\* was opened, nothing was split or extracted and nothing was persisted.
C19_InputErrors ==
    (pc # "request" /\ (statementText = NoText \/ supabaseUserId = "")) =>
        /\ response = IF statementText = NoText THEN "400" ELSE "401"
        /\ pc = "responded"
        /\ streamState = "none" /\ events = <<>> /\ closes = 0
        /\ chunks = <<>> /\ chunkResults = <<>>
        /\ NothingPersisted

\* C19 witness: a request with a statement text and no user identity was
\* answered with 401.
C19_Witness ==
    /\ supabaseUserId = "" /\ statementText # NoText
    /\ response = "401"

(***************************************************************************)
(* Claims about performAutoValidation (checked under SpecValidate).        *)
(***************************************************************************)
\* The sum of a field over the transactions, in hundredths, exactly.
RECURSIVE ExactSum(_, _)
ExactSum(transactions, field) ==
    IF transactions = <<>> THEN 0
    ELSE Head(transactions)[field] + ExactSum(Tail(transactions), field)

\* |starting balance + credits - debits - ending balance|, in hundredths,
\* exactly.
ExactDiscrepancy(statement) ==
    LET calculated == statement.startingBalance
                        + ExactSum(statement.transactions, "creditAmount")
                        - ExactSum(statement.transactions, "debitAmount")
    IN IF calculated >= statement.endingBalance
       THEN calculated - statement.endingBalance
       ELSE statement.endingBalance - calculated

\* C20: performAutoValidation returns an outcome, passed exactly when
\* |starting balance + sum of credits - sum of debits - ending balance| is at
\* most 0.01, and failed otherwise, with that discrepancy reported.
C20_PassedWithinTolerance ==
    pc = "validated" =>
        LET discrepancy == ExactDiscrepancy(store.statements[1]) IN
        /\ validationResult.status \in {"passed", "failed"}
        /\ validationResult.status = "passed" <=> discrepancy <= Tolerance
        /\ validationResult.status = "failed" =>
               validationResult.discrepancy = discrepancy

(***************************************************************************)
(* Claims about the validation stage of POST (checked under SpecPost).     *)
(***************************************************************************)
\* The validation stage has updated stored statement id in this request.
ValidationProcessed(id) ==
    \E k \in 1..Len(events) :
        events[k].type = "validation_complete" /\ events[k].n = id

\* C21: a stored statement that a validation has processed has validated
\* true exactly when its validationStatus is passed, and validatedAt set
\* exactly when the status is passed; after the validation stage of this
\* request processed it, its status is passed or failed.
C21_ValidatedIffPassed ==
    \A id \in 1..Len(store.statements) :
        LET s == store.statements[id] IN
        /\ ValidationProcessed(id) => s.validationStatus \in {"passed", "failed"}
        /\ s.validationStatus # "pending" =>
              /\ s.validated <=> s.validationStatus = "passed"
              /\ s.validatedAt # "null" <=> s.validationStatus = "passed"

\* C21 witness: a statement stored by an earlier ingestion received
\* transactions in this request, failed its validation and is left not
\* validated and with no validatedAt.
C21_Witness ==
    \E id \in 1..Len(store.statements) :
        /\ ValidationProcessed(id)
        /\ \E k \in 1..Len(processingResults) :
              /\ processingResults[k].bankStatementId = id
              /\ processingResults[k].action \notin {"CREATE_NEW", "ADD_TO_EXISTING_BANK"}
        /\ store.statements[id].validationStatus = "failed"
        /\ ~store.statements[id].validated
        /\ store.statements[id].validatedAt = "null"

(***************************************************************************)
(* Claims about the classification stage of POST (checked under SpecPost). *)
(***************************************************************************)
ClassificationBegan ==
    \E k \in 1..Len(events) :
        events[k] = Status("Triggering automatic classification for saved statements")

\* C22: classification is fire-and-forget.  At the head of the
\* classification loop the handler's next step is never held back by a
\* classification in flight; once the classification stage has begun no error
\* event is emitted, whatever fails at trigger time or later; and a handler
\* that finished after the stage began finished with the complete event.
C22_FireAndForget ==
    /\ pc = "classification_start" => ENABLED ClassificationStart
    /\ ClassificationBegan => \A k \in 1..Len(events) : events[k].type # "error"
    /\ (ClassificationBegan /\ pc = "done") =>
          /\ events[Len(events)].type = "complete"
          /\ streamState = "closed"

\* C22 witness: the complete event was emitted while one classification was
\* still in flight and after another had failed.
C22_Witness ==
    /\ pc = "done" /\ events[Len(events)].type = "complete"
    /\ classifying # {}
    /\ \E r \in classified : ~r.ok

(***************************************************************************)
(* Claims about the store along a request (checked under SpecPost).        *)
(***************************************************************************)
\* Every statement and transaction of store a is in store b, in its place.
StoreWithin(a, b) ==
    /\ Len(a.statements) <= Len(b.statements)
    /\ a.banks \subseteq b.banks
    /\ \A id \in 1..Len(a.statements) :
          LET old == a.statements[id]
              new == b.statements[id]
          IN /\ new.bankName = old.bankName
             /\ new.accountNumber = old.accountNumber
             /\ Len(new.transactions) >= Len(old.transactions)
             /\ SubSeq(new.transactions, 1, Len(old.transactions)) = old.transactions

\* C23: no step of a request, whether it ends with complete, with an error
\* or with the client gone, removes a stored statement or a stored
\* transaction: the store after each step holds everything it held before.
C23_StoreOnlyGrows == [][StoreWithin(store, store')]_vars

\* C23 witness: the client cancelled the stream and start() rejected after a
\* Persister call had written to the store; what it wrote is stored.
C23_Witness ==
    /\ pc = "rejected" /\ streamState = "cancelled"
    /\ \E e \in 1..Len(persistLog) :
          /\ persistLog[e].wrote
          /\ persistLog[e].bankStatementId \in 1..Len(store.statements)
          /\ Len(store.statements[persistLog[e].bankStatementId].transactions)
                >= Len(persistLog[e].statement.transactions)
    /\ store \notin InitialStores

(***************************************************************************)
(* Claims about the cleaning and the parsing of a response (checked under  *)
(* SpecExtract).                                                           *)
(***************************************************************************)
\* The number of "{" less the number of "}" among the tokens a..b of t.
Depth(t, a, b) ==
    Cardinality({i \in a..b : t[i] = "{"}) - Cardinality({i \in a..b : t[i] = "}"})

\* The positions of the first "{" of t and of the "}" that brings the depth
\* counted from it back to zero.
FirstBrace(t) == CHOOSE i \in 1..Len(t) : t[i] = "{" /\ \A j \in 1..(i - 1) : t[j] # "{"
MatchingBrace(t) ==
    CHOOSE j \in FirstBrace(t)..Len(t) :
        /\ Depth(t, FirstBrace(t), j) = 0
        /\ \A i \in FirstBrace(t)..(j - 1) : Depth(t, FirstBrace(t), i) # 0
HasMatchingBrace(t) ==
    /\ \E i \in 1..Len(t) : t[i] = "{"
    /\ \E j \in FirstBrace(t)..Len(t) : Depth(t, FirstBrace(t), j) = 0

\* C24: when the response without its code fences has a "{" and a "}" that
\* closes it by the count of braces, the cleaned text is the text from that
\* "{" to that "}", cleaned up, and holds nothing of what follows the "}".
C24_KeepsFirstObject ==
    pc # "parse" =>
        LET stripped == StripFences(responseText) IN
        HasMatchingBrace(stripped) =>
            parseResult.cleanedText =
                CleanUp(SubSeq(stripped, FirstBrace(stripped), MatchingBrace(stripped)))

\* C24 witness: a response in a code fence whose object is followed by a
\* second object and by prose was cleaned to the first object alone.
C24_Witness ==
    /\ pc # "parse"
    /\ responseText = <<"fence", "json", "\n", "{", "}", "{", "}", " ", "x">>
    /\ parseResult.cleanedText = <<"{", "}">>

\* C25: when the cleaned text does not parse and has k > 0 more "{" than
\* "}", the manual fix is the cleaned text with k "}" appended, and when that
\* text is well formed the chunk is parsed.
C25_RepairAppendsBraces ==
    pc # "parse" =>
        LET cleaned == parseResult.cleanedText
            k == CountOf(cleaned, "{") - CountOf(cleaned, "}")
        IN (~JSONParses(cleaned) /\ k > 0) =>
              /\ parseResult.manualFix = cleaned \o Repeat("}", k)
              /\ JSONParses(cleaned \o Repeat("}", k)) => parseResult.outcome = "parsed"

(***************************************************************************)
(* Claims about the shape of the chunk data (checked under SpecShape).     *)
(***************************************************************************)
\* C31: whatever shape the parsed response had, the ChunkData processChunk
\* returns holds an array of statements, and the merge of the chunks does not
\* raise.
C31_CanonicalShape ==
    /\ \A k \in 1..Len(chunkData) : IsArray(chunkData[k].account_statements)
    /\ pc # "thrown"


(***************************************************************************)
(* Claims about convertToDecimal (checked under SpecConvert).              *)
(***************************************************************************)
\* An amount that is absent, empty or "unknown", or has no digit.
UnknownAmount(value) ==
    \/ value.type \in {"undefined", "null"}
    \/ ToLowerCase(value.chars) = UnknownWord
    \/ \A k \in 1..Len(value.chars) : value.chars[k] \notin Digits

\* An amount whose value is zero: the number 0, or a string that is a
\* decimal numeral of zeros.
ZeroAmount(value) ==
    /\ value.type \in {"number", "string"}
    /\ NewDecimal(value.chars).kind = "decimal"
    /\ NewDecimal(value.chars).int = <<>>
    /\ NewDecimal(value.chars).frac = <<>>

IsZeroDecimal(d) == d.kind = "decimal" /\ d.int = <<>> /\ d.frac = <<>>

\* C32: convertToDecimal gives null, never zero, for an amount that is empty,
\* null, "unknown" or without numeric content, and zero, not null, for an
\* amount of value zero; an unknown amount is never stored as zero.
C32_UnknownIsNeverZero ==
    /\ pc \in {"converted", "stored"} =>
        /\ UnknownAmount(amount) => decimal = NoDecimal
        /\ ZeroAmount(amount) => IsZeroDecimal(decimal)
    /\ pc = "stored" =>
        (UnknownAmount(amount) => ~IsZeroDecimal(storedBalance))


(***************************************************************************)
(* Claims about the non-streaming route (checked under SpecLegacy).        *)
(***************************************************************************)
\* The creation calls of the log with an outcome.
LogEntries(action) == {e \in 1..Len(persistLog) : persistLog[e].action = action}

\* The request has failed: it has left its loop for the catch blocks, where
\* it writes the debug file, and its only response is the status 500.
RequestFailed(c) ==
    \/ requestPc[c] = "saveDebugResponse" /\ requestResponse[c] = "none"
    \/ requestPc[c] = "responded" /\ requestResponse[c] = "500"

SameStoredKey(a, b) ==
    /\ a.bankName = b.bankName
    /\ a.accountNumber = b.accountNumber
    /\ a.statementPeriodStart = b.statementPeriodStart
    /\ a.statementPeriodEnd = b.statementPeriodEnd

\* C35: the non-streaming route decides nothing atomically: every statement
\* creation that returns adds a stored statement of its own, whether or not
\* the store holds one for the same bank, account and period, and a request
\* that found no bank attempts to create it even when another request has
\* created it meanwhile, which fails the request.
C35_NoAtomicDecision ==
    /\ Len(store.statements) = Cardinality(LogEntries("CREATED"))
    /\ \A e \in LogEntries("CREATED") :
        LET stored == store.statements[persistLog[e].bankStatementId] IN
        /\ stored.bankName = persistLog[e].statement.bank_name
        /\ stored.accountNumber = persistLog[e].statement.account_number
        /\ stored.statementPeriodStart = persistLog[e].statement.statement_period.start_date
    /\ \A e \in LogEntries("BANK_ERROR") : RequestFailed(persistLog[e].by)

\* C35 witness: two requests have each created a stored statement for the
\* same bank, account and period, and a request that had found no bank has
\* failed to create it because the other request had created it meanwhile.
C35_Witness ==
    /\ faults = 0
    /\ \E e \in LogEntries("BANK_ERROR") : persistLog[e].statement.bank_name \in store.banks
    /\ \E e1, e2 \in LogEntries("CREATED") :
        /\ persistLog[e1].by # persistLog[e2].by
        /\ persistLog[e1].bankStatementId # persistLog[e2].bankStatementId
        /\ SameStoredKey(store.statements[persistLog[e1].bankStatementId],
                         store.statements[persistLog[e2].bankStatementId])

\* The requests that have ended.
Responded(c) == requestPc[c] = "responded"

\* The creation calls of request c, in the order it made them.
CallsBy(c) == SelectSeq(persistLog, LAMBDA e : e.by = c)

\* C39: when the creation of the k-th statement of a request fails, the
\* request leaves its loop, is answered with the status 500 and with no
\* other, and creates no later statement, and the
\* k-1 statements it created before, with their banks, stay in the store.
C39_NotAtomicOverDocument ==
    \A c \in Ingestions :
        LET cs == CallsBy(c)
            failed == \E k \in 1..Len(cs) : cs[k].action \in {"ERROR", "BANK_ERROR"}
        IN /\ \A k \in 1..Len(cs) :
                cs[k].action \in {"ERROR", "BANK_ERROR"} =>
                    /\ k = Len(cs)
                    /\ RequestFailed(c)
                    /\ Len(requestSaved[c]) = k - 1
           /\ \A k \in 1..Len(cs) :
                cs[k].action = "CREATED" =>
                    /\ requestSaved[c][k] = cs[k].bankStatementId
                    /\ cs[k].bankStatementId \in 1..Len(store.statements)
                    /\ store.statements[cs[k].bankStatementId].accountNumber
                            = cs[k].statement.account_number
                    /\ cs[k].statement.bank_name \in store.banks
           /\ (Responded(c) /\ ~failed) => requestResponse[c] = "200"

\* C39 witness: a request saved its first statement, failed on its second and
\* answered 500, and the first statement and its bank are in the store.
C39_Witness ==
    \E c \in Ingestions :
        LET cs == CallsBy(c) IN
        /\ Len(cs) = 2
        /\ cs[1].action = "CREATED" /\ cs[2].action = "ERROR"
        /\ requestResponse[c] = "500"
        /\ pending[c] # <<>>
        /\ store.statements[cs[1].bankStatementId].accountNumber
                = cs[1].statement.account_number

(***************************************************************************)
(* Claims about the order of the events of POST (checked under SpecPost).  *)
(***************************************************************************)
\* The positions in the stream of the events of the given types.
Positions(types) == {i \in 1..Len(events) : events[i].type \in types}

\* Every event of the types in earlier precedes every event of the types in
\* later.
AllBefore(earlier, later) ==
    \A i \in Positions(earlier), j \in Positions(later) : i < j

\* Each event of type start is followed, before the next event of type start,
\* by exactly one event of the types in ends, and that event is about the
\* same chunk or statement.
ClosedOnce(start, ends) ==
    \A i \in Positions({start}) :
        LET later == {j \in Positions({start}) : j > i}
            next == IF later = {} THEN Len(events) + 1
                    ELSE CHOOSE j \in later : \A k \in later : j <= k
            closing == {j \in Positions(ends) : i < j /\ j < next}
        IN /\ Cardinality(closing) = 1
           /\ \A j \in closing : events[j].n = events[i].n

\* The run was successful: the handler has ended and has sent the complete
\* event.
SuccessfulRun ==
    /\ pc = "done"
    /\ Positions({"complete"}) # {}

ChunkEventTypes == {"chunk_start", "chunk_complete", "chunk_error"}

StatementEventTypes ==
    {"statement_start", "statement_complete", "statement_error", "statement_skip"}

ValidationEventTypes ==
    {"validation_start", "validation_complete", "validation_error"}

ClassificationEventTypes ==
    {"classification_start", "classification_triggered", "classification_error"}

\* C36: in a successful run chunks_prepared precedes every chunk_start; each
\* chunk_start is followed by exactly one chunk_complete or chunk_error of
\* the same chunk before the next chunk_start; merge_complete follows all
\* chunk events; each statement_start is followed by exactly one
\* statement_complete, statement_error or statement_skip before the next
\* statement_start; the validation events follow the statement events, the
\* classification events follow the validation events, and complete is the
\* last event.
C36_EventOrder ==
    SuccessfulRun =>
        /\ Positions({"chunks_prepared"}) # {}
        /\ AllBefore({"chunks_prepared"}, {"chunk_start"})
        /\ ClosedOnce("chunk_start", {"chunk_complete", "chunk_error"})
        /\ Positions({"merge_complete"}) # {}
        /\ AllBefore(ChunkEventTypes, {"merge_complete"})
        /\ ClosedOnce("statement_start",
                      {"statement_complete", "statement_error", "statement_skip"})
        /\ AllBefore({"merge_complete"}, StatementEventTypes)
        /\ AllBefore(StatementEventTypes, ValidationEventTypes)
        /\ AllBefore(ValidationEventTypes, ClassificationEventTypes)
        /\ AllBefore(StatementEventTypes, ClassificationEventTypes)
        /\ Positions({"complete"}) = {Len(events)}

\* A successful run of two chunks, one of which failed, with a statement that
\* was stored and one whose persistence raised, a validation and a
\* classification.
C36_Witness ==
    /\ SuccessfulRun
    /\ Cardinality(Positions({"chunk_start"})) = 2
    /\ Positions({"chunk_error"}) # {}
    /\ Positions({"statement_complete"}) # {}
    /\ Positions({"statement_error"}) # {}
    /\ Positions(ValidationEventTypes) # {}
    /\ Positions(ClassificationEventTypes) # {}

(***************************************************************************)
(* Claims about the statements POST validates and classifies (checked      *)
(* under SpecPost).                                                        *)
(***************************************************************************)
\* The ids the Persister calls of the request returned with one of the
\* given actions.
ReturnedIds(actions) ==
    {persistLog[k].bankStatementId :
        k \in {j \in 1..Len(persistLog) : persistLog[j].action \in actions}}

StoringActions == {"CREATE_NEW", "ADD_TO_EXISTING_BANK", "MERGE_DIFFERENT_PERIOD"}

\* The ids the events of the given type are about.
IdsOf(type) == {events[i].n : i \in Positions({type})}

\* Validation and classification start for exactly the ids returned with an
\* action other than SKIP_DUPLICATE, once each.
ExactlyTheStored ==
    /\ IdsOf("validation_start") = ReturnedIds(StoringActions)
    /\ IdsOf("classification_start") = ReturnedIds(StoringActions)
    /\ Cardinality(Positions({"validation_start"}))
            = Cardinality(ReturnedIds(StoringActions))
    /\ Cardinality(Positions({"classification_start"}))
            = Cardinality(ReturnedIds(StoringActions))

\* A statement skipped as duplicate is neither validated nor classified, and
\* a persistence that raised adds no validation and no classification.
SkippedUntouched ==
    \A id \in ReturnedIds({"SKIP_DUPLICATE"}) :
        id \notin IdsOf("validation_start") \cup IdsOf("classification_start")

\* Each validation_start is followed by one validation_complete or
\* validation_error of the same id.
ValidationClosed ==
    ClosedOnce("validation_start", {"validation_complete", "validation_error"})

\* C37: in a run that ends with complete, validation and classification run
\* for exactly the statements a Persister call returned with an action other
\* than SKIP_DUPLICATE, never for a skipped or an errored one, and each
\* validated id gets one validation_start followed by one validation_complete
\* or validation_error.
C37_ValidatesExactlyTheStored ==
    SuccessfulRun => ExactlyTheStored /\ SkippedUntouched /\ ValidationClosed

(***************************************************************************)
(* Claims about the update-bank endpoint (checked under SpecPut).          *)
(***************************************************************************)
\* The value is a string with a character that is no white space.
NonBlankString(value) ==
    /\ value.type = "string"
    /\ \E i \in 1..Len(value.text) : value.text[i] \notin Whitespace

\* The body carries a user identity.
IdentityPresent(value) ==
    /\ value.type \notin {"undefined", "null"}
    /\ value.text \notin {<<>>, <<"0">>}

PutResponded == putPc = "responded"

\* The checks of the body of a request that was parsed to an object: the
\* update is called only for a non-blank bank name and an identity, a bank
\* name that is missing or blank is answered 400 whatever the identity, a
\* missing identity 401, both with no call.
PutChecks ==
    LET body == putRequest.body IN
    /\ putCalls # <<>> =>
            /\ body.kind = "object"
            /\ NonBlankString(body.bankName)
            /\ IdentityPresent(body.supabaseUserId)
            /\ Len(putCalls) = 1
    /\ (PutResponded /\ body.kind = "object" /\ ~NonBlankString(body.bankName)) =>
            putResponse.status = "400" /\ putCalls = <<>>
    /\ (PutResponded /\ body.kind = "object" /\ NonBlankString(body.bankName)
            /\ ~IdentityPresent(body.supabaseUserId)) =>
            putResponse.status = "401" /\ putCalls = <<>>

\* An error of the update is answered 404 when its message holds the words
\* not found, and 500 otherwise.
PutUpdateErrors ==
    \A outcome \in UpdateOutcomes :
        (PutUpdateSettled(outcome) /\ ~outcome.ok) =>
            putResponse'.status =
                IF outcome.error.hasMessage
                   /\ \E k \in 1..Len(outcome.error.message) :
                        [j \in 1..9 |-> IF k + j - 1 <= Len(outcome.error.message)
                                         THEN outcome.error.message[k + j - 1]
                                         ELSE ""]
                            = <<"n", "o", "t", " ", "f", "o", "u", "n", "d">>
                THEN "404" ELSE "500"

\* C40: the update-bank endpoint calls updateStatementBankAffiliation only
\* when the bank name is a non-blank string and a user identity is present;
\* a missing or blank bank name yields 400 (checked before the identity), a
\* missing identity 401, in both cases with no update attempted; an update
\* error mentioning 'not found' yields 404 and any other update error 500.
C40_UpdateBankResponses == [](PutChecks) /\ [][PutUpdateErrors]_vars

\* The update was called with the trimmed bank name, raised an error that
\* mentions not found, and the request was answered 404.
C40_Witness ==
    /\ PutResponded
    /\ Len(putCalls) = 1
    /\ putCalls[1].bankName = <<"C", "I", "B">>
    /\ putRequest.body.bankName.text # <<"C", "I", "B">>
    /\ putResponse.status = "404"

====
